---- MODULE Spec2Model ----
(***************************************************************************)
(* A model of the g4-to-ebnf tool set: the token scanner, the token-based  *)
(* rule extractor / alternative splitter and the renderer of               *)
(* ebnf-prettify.ts (duplicated in g4-to-ebnf.ts), the validator           *)
(* ebnf-check.ts, and the converter g4-to-ebnf.ts.                         *)
(*                                                                         *)
(* A text is a sequence of one-character strings, indexed from 1; the      *)
(* source indexes from 0, so the source's half-open range [i, j) is the    *)
(* model's [i+1, j+1).  Every component is a pure function of its input:   *)
(* it is an operator here, and each specification draws the inputs in its  *)
(* Init and applies the operators in its actions.                          *)
(***************************************************************************)
EXTENDS Integers, Sequences, FiniteSets, TLC

VARIABLES
    pc,        \* position of the running tool in its script
    src,       \* the input text (raw)
    tks,       \* the token sequence the scanner returned (tokens)
    rules,     \* the rules the token-based extractor returned
    ruleAt,    \* history: for each of these rules, the index in tks of its ::= token
    alts,      \* for each of these rules, the alternatives its rhs was split into
    startOverride, \* ebnf-check: the value of --start, empty when absent
    stripped,  \* ebnf-check: the text without its comments
    chkRules,  \* ebnf-check: the rules its extractor returned (rules)
    startRule, \* ebnf-check: the start rule, empty when there is none
    errors,    \* ebnf-check: the errors pushed so far, in order
    warnings,  \* ebnf-check: the warnings pushed so far, in order
    depGraph,  \* ebnf-check: rule name -> set of names it depends on
    ri,        \* ebnf-check: how many rules the per-rule loop has processed
    exitCode,  \* ebnf-check: process.exitCode
    width,     \* ebnf-prettify: the value of --width
    output,    \* ebnf-prettify, g4-to-ebnf: the text written, empty before
    g4Text,    \* g4-to-ebnf: the grammar text after the strip passes (text)
    g4Rules    \* g4-to-ebnf: the rules its extractor returned

chkVars ==
    <<startOverride, stripped, chkRules, startRule, errors, warnings, depGraph, ri, exitCode>>

fmtVars == <<width, output>>

cnvVars == <<g4Text, g4Rules>>

vars == <<pc, src, tks, rules, ruleAt, alts, chkVars, fmtVars, cnvVars>>

\* the validator before it has run
ChkIdle ==
    /\ stripped = <<>>
    /\ chkRules = <<>>
    /\ startRule = <<>>
    /\ errors = <<>>
    /\ warnings = <<>>
    /\ depGraph = <<>>
    /\ ri = 0
    /\ exitCode = 0

\* the formatter before it has run, with the default width
FmtIdle ==
    /\ width = 100
    /\ output = <<>>

\* the converter before it has run
CnvIdle ==
    /\ g4Text = <<>>
    /\ g4Rules = <<>>

(***************************************************************************)
(* Bounds of the model.                                                    *)
(***************************************************************************)
MaxText == 4      \* longest text given to the scanner, in characters
MaxLexemes == 5   \* longest text given to the rule extractor, in lexemes
MaxRhsLexemes == 5 \* longest right-hand side given to the splitter, in lexemes

(***************************************************************************)
(* Characters and strings.                                                 *)
(***************************************************************************)
LowerChars == {"a","b","c","d","e","f","g","h","i","j","k","l","m",
               "n","o","p","q","r","s","t","u","v","w","x","y","z"}
UpperChars == {"A","B","C","D","E","F","G","H","I","J","K","L","M",
               "N","O","P","Q","R","S","T","U","V","W","X","Y","Z"}
DigitChars == {"0","1","2","3","4","5","6","7","8","9"}

\* /\s/ on one character
IsWs(c) == c \in {" ", "\t", "\n", "\r", "\f"}
\* /[A-Za-z_]/ on one character
IsIdentStart(c) == c \in LowerChars \cup UpperChars \cup {"_"}
\* /[A-Za-z0-9_]/ (and \w) on one character
IsWordChar(c) == c \in LowerChars \cup UpperChars \cup DigitChars \cup {"_"}

Min(a, b) == IF a <= b THEN a ELSE b
Max(a, b) == IF a >= b THEN a ELSE b

\* src[i] of the source; the empty string stands for JavaScript's undefined
At(s, i) == IF i >= 1 /\ i <= Len(s) THEN s[i] ELSE ""
\* s.slice(i, j) for 0 <= i, j: the characters at [i, j), clamped to the text
Slice(s, i, j) == SubSeq(s, i, Min(j, Len(s) + 1) - 1)

\* all sequences over the set cs of length at most n
TextsUpTo(cs, n) == UNION {[1..k -> cs] : k \in 0..n}

\* the concatenation of a sequence of texts
RECURSIVE Concat(_)
Concat(ts) == IF ts = <<>> THEN <<>> ELSE Head(ts) \o Concat(Tail(ts))

(***************************************************************************)
(* Token Scanner: tokenize (ebnf-prettify.ts) and tokenizeEBNF             *)
(* (g4-to-ebnf.ts, the same code line for line).                           *)
(* Each branch of the scanner's loop is an operator from the position i to *)
(* the token pushed and the next position.                                 *)
(***************************************************************************)
Tok(type, text) == [type |-> type, text |-> text]

\* while (j < N && /\s/.test(src[j])) j++
RECURSIVE WsEnd(_, _)
WsEnd(s, j) == IF j <= Len(s) /\ IsWs(s[j]) THEN WsEnd(s, j + 1) ELSE j

\* while (j < N && !(src[j] === "*" && src[j + 1] === close)) j++
RECURSIVE CommentScan(_, _, _)
CommentScan(s, j, close) ==
    IF j <= Len(s) /\ ~(s[j] = "*" /\ At(s, j + 1) = close)
    THEN CommentScan(s, j + 1, close)
    ELSE j

\* j = Math.min(N, j + 2) after the scan of a block comment
CommentEnd(s, i, close) == Min(Len(s) + 1, CommentScan(s, i + 2, close) + 2)

\* while (j < N && src[j] !== "\n") j++
RECURSIVE LineEnd(_, _)
LineEnd(s, j) == IF j <= Len(s) /\ s[j] # "\n" THEN LineEnd(s, j + 1) ELSE j

\* the string branch without its escape test: a backslash is an ordinary character
RECURSIVE StringEndNoEscape(_, _, _)
StringEndNoEscape(s, j, quote) ==
    IF j > Len(s) THEN j
    ELSE IF s[j] = quote THEN j + 1
    ELSE StringEndNoEscape(s, j + 1, quote)

\* the loop of the string branch, from j = i + 1
RECURSIVE StringEnd(_, _, _)
StringEnd(s, j, quote) ==
    IF j > Len(s) THEN j
    ELSE IF s[j] = "\\" /\ j + 1 <= Len(s) THEN StringEnd(s, j + 2, quote)
    ELSE IF s[j] = quote THEN j + 1
    ELSE StringEnd(s, j + 1, quote)

\* the character-class branch without its escape test
RECURSIVE ClassEndNoEscape(_, _, _)
ClassEndNoEscape(s, j, depth) ==
    IF ~(j <= Len(s) /\ depth > 0) THEN j
    ELSE IF s[j] = "[" THEN ClassEndNoEscape(s, j + 1, depth + 1)
    ELSE IF s[j] = "]" THEN ClassEndNoEscape(s, j + 1, depth - 1)
    ELSE ClassEndNoEscape(s, j + 1, depth)

\* the loop of the character-class branch, from j = i + 1 and depth = 1
RECURSIVE ClassEnd(_, _, _)
ClassEnd(s, j, depth) ==
    IF ~(j <= Len(s) /\ depth > 0) THEN j
    ELSE IF s[j] = "\\" /\ j + 1 <= Len(s) THEN ClassEnd(s, j + 2, depth)
    ELSE IF s[j] = "[" THEN ClassEnd(s, j + 1, depth + 1)
    ELSE IF s[j] = "]" THEN ClassEnd(s, j + 1, depth - 1)
    ELSE ClassEnd(s, j + 1, depth)

\* while (j < N && /[A-Za-z0-9_]/.test(src[j])) j++
RECURSIVE IdentEnd(_, _)
IdentEnd(s, j) == IF j <= Len(s) /\ IsWordChar(s[j]) THEN IdentEnd(s, j + 1) ELSE j

SingleOps == {"|", "(", ")", "?", ",", ";", "+", "*"}

\* the whitespace branch pushing an empty text: the run is skipped, not kept
WsTokDropped(s, i) ==
    [type |-> "ws", text |-> <<>>, next |-> WsEnd(s, i + 1)]

\* push("ws", src.slice(i, j)); i = j
WsTok(s, i) ==
    LET j == WsEnd(s, i + 1)
    IN  [type |-> "ws", text |-> Slice(s, i, j), next |-> j]

\* One iteration of the scanner's loop at position i <= N: the branches in
\* the order the source tests them.
ScanToken(s, i) ==
    LET ch == s[i]
        span(type, j) == [type |-> type, text |-> Slice(s, i, j), next |-> j]
    IN  IF IsWs(ch) THEN WsTok(s, i)
        ELSE IF ch = "(" /\ At(s, i + 1) = "*" THEN span("comment", CommentEnd(s, i, ")"))
        ELSE IF ch = "/" /\ At(s, i + 1) = "/" THEN span("comment", LineEnd(s, i + 2))
        ELSE IF ch = "/" /\ At(s, i + 1) = "*" THEN span("comment", CommentEnd(s, i, "/"))
        ELSE IF ch = "'" \/ ch = "\"" THEN span("string", StringEnd(s, i + 1, ch))
        ELSE IF ch = "[" THEN span("charclass", ClassEnd(s, i + 1, 1))
        ELSE IF ch = ":" /\ Slice(s, i, i + 3) = <<":", ":", "=">>
             THEN [type |-> "op", text |-> <<":", ":", "=">>, next |-> i + 3]
        ELSE IF ch \in SingleOps THEN [type |-> "op", text |-> <<ch>>, next |-> i + 1]
        ELSE IF IsIdentStart(ch) THEN span("ident", IdentEnd(s, i + 1))
        ELSE [type |-> "ident", text |-> <<ch>>, next |-> i + 1]

RECURSIVE ScanFrom(_, _)
ScanFrom(s, i) ==
    IF i > Len(s) THEN <<>>
    ELSE LET t == ScanToken(s, i)
         IN  <<Tok(t.type, t.text)>> \o ScanFrom(s, t.next)

tokenize(s) == ScanFrom(s, 1)

tokenizeEBNF(s) == ScanFrom(s, 1)

\* the position in the text of token k of a scan: behind the tokens before it
TokStart(ts, k) == 1 + Len(Concat([m \in 1..(k - 1) |-> ts[m].text]))

(***************************************************************************)
(* Specification SpecScan: the scanner on every text over ScanChars of at  *)
(* most MaxText characters.                                                *)
(***************************************************************************)
ScanChars == {"'", "\"", "\\", "[", "]", "(", ")", "*", "/", "\n", "a", ":", "="}

InitScan ==
    /\ pc = "start"
    /\ src \in TextsUpTo(ScanChars, MaxText)
    /\ tks = <<>>
    /\ rules = <<>>
    /\ ruleAt = <<>>
    /\ alts = <<>>
    /\ startOverride = <<>>
    /\ ChkIdle
    /\ CnvIdle
    /\ FmtIdle

\* const tokens = tokenize(raw)
Tokenize ==
    /\ pc = "start"
    /\ tks' = tokenize(src)
    /\ pc' = "tokenize"
    /\ UNCHANGED <<src, rules, ruleAt, alts>>
    /\ UNCHANGED chkVars
    /\ UNCHANGED fmtVars
    /\ UNCHANGED cnvVars

\* const tokens = tokenizeEBNF(ebnfContent)
TokenizeEBNF ==
    /\ pc = "start"
    /\ tks' = tokenizeEBNF(src)
    /\ pc' = "tokenizeEBNF"
    /\ UNCHANGED <<src, rules, ruleAt, alts>>
    /\ UNCHANGED chkVars
    /\ UNCHANGED fmtVars
    /\ UNCHANGED cnvVars

NextScan == Tokenize \/ TokenizeEBNF

SpecScan == InitScan /\ [][NextScan]_vars

Scanned == pc \in {"tokenize", "tokenizeEBNF"}

TokTexts(ts) == [k \in 1..Len(ts) |-> ts[k].text]

\* C1: for every input text, the texts of the tokens the scanner returned
\* (tokenize and tokenizeEBNF), concatenated in order, are the input text.
C1_Lossless == Scanned => Concat(TokTexts(tks)) = src

\* a scan of a text with whitespace, a comment and other tokens has ended
C1_Witness ==
    /\ Scanned
    /\ Len(tks) >= 3
    /\ \E k \in 1..Len(tks) : tks[k].type = "ws"
    /\ \E k \in 1..Len(tks) : tks[k].type = "comment"

(***************************************************************************)
(* Delimiters of a text, stated on the text alone.                         *)
(***************************************************************************)
\* the number of backslashes that stand directly before position j, after p
BackslashRun(s, p, j) ==
    Cardinality({n \in 1..(j - p - 1) : \A m \in 1..n : s[j - m] = "\\"})

\* position j is escaped in the span that opens at p
Escaped(s, p, j) == BackslashRun(s, p, j) % 2 = 1

\* the unescaped occurrences of c in the span that opens at p, up to position j
Unescaped(s, p, j, c) == {m \in (p + 1)..j : s[m] = c /\ ~Escaped(s, p, m)}

\* the quoted literal opened at p has a closing quote
QuoteCloses(s, p) == \E j \in (p + 1)..Len(s) : s[j] = s[p] /\ ~Escaped(s, p, j)

\* the block comment opened at p has its closing marker "*" close
CommentCloses(s, p, close) ==
    \E j \in (p + 2)..Len(s) : s[j] = "*" /\ At(s, j + 1) = close

\* the character class opened at p returns to depth 0 at some "]"
ClassCloses(s, p) ==
    \E j \in (p + 1)..Len(s) :
        Cardinality(Unescaped(s, p, j, "]")) = 1 + Cardinality(Unescaped(s, p, j, "["))

\* token k of the scan is a literal, a class or a block comment whose closing
\* delimiter never occurs
Unterminated(s, ts, p, k) ==
    \/ ts[k].type = "string" /\ ~QuoteCloses(s, p)
    \/ ts[k].type = "charclass" /\ ~ClassCloses(s, p)
    \/ ts[k].type = "comment" /\ s[p] = "(" /\ ~CommentCloses(s, p, ")")
    \/ ts[k].type = "comment" /\ s[p] = "/" /\ At(s, p + 1) = "*" /\ ~CommentCloses(s, p, "/")

\* C2: the scanner returns a result for every text, and a quoted literal, a
\* character class, a (* comment or a /* comment whose closing delimiter never
\* occurs is one token from its opener to the last character of the input,
\* the final token of the result.
C2_UnterminatedRunsToEnd ==
    Scanned =>
        \A k \in 1..Len(tks) :
            Unterminated(src, tks, TokStart(tks, k), k) =>
                /\ k = Len(tks)
                /\ tks[k].text = SubSeq(src, TokStart(tks, k), Len(src))

\* a scan has ended with an unterminated literal, holding an escaped quote,
\* behind another token
C2_Witness ==
    /\ Scanned
    /\ Len(tks) >= 2
    /\ tks[Len(tks)].type = "string"
    /\ Unterminated(src, tks, TokStart(tks, Len(tks)), Len(tks))
    /\ \E j \in 2..Len(tks[Len(tks)].text) :
           tks[Len(tks)].text[j] = tks[Len(tks)].text[1]

\* the nesting depth of the character class opened at p, behind position j
ClassDepth(s, p, j) ==
    1 + Cardinality(Unescaped(s, p, j, "[")) - Cardinality(Unescaped(s, p, j, "]"))

\* C23: a quoted-literal token holds no unescaped occurrence of its opening
\* quote before its last character, and ends with one when the text has one;
\* a character-class token stays at depth 1 or more before its last character
\* and ends with the unescaped "]" that returns the depth to 0 when the text
\* has one.  Escaped means: behind an odd run of backslashes, so a backslash
\* and the character behind it are never split.
C23_EscapePairs ==
    Scanned =>
        \A k \in 1..Len(tks) :
            LET p == TokStart(tks, k)
                e == p + Len(tks[k].text) - 1
            IN  /\ tks[k].type = "string" =>
                    /\ Unescaped(src, p, e - 1, src[p]) = {}
                    /\ QuoteCloses(src, p) =>
                           e > p /\ src[e] = src[p] /\ ~Escaped(src, p, e)
                /\ tks[k].type = "charclass" =>
                    /\ \A j \in p..(e - 1) : ClassDepth(src, p, j) >= 1
                    /\ ClassCloses(src, p) =>
                           e > p /\ src[e] = "]" /\ ClassDepth(src, p, e) = 0

\* a scan has ended with a character class that holds an escaped "]" and is
\* closed by a later "]"
C23_Witness ==
    /\ Scanned
    /\ \E k \in 1..Len(tks) :
           /\ tks[k].type = "charclass"
           /\ Len(tks[k].text) = 4
           /\ tks[k].text[2] = "\\"
           /\ tks[k].text[3] = "]"
           /\ tks[k].text[4] = "]"

(***************************************************************************)
(* Rule Extractor: extractRules (ebnf-prettify.ts) and extractEBNFRules    *)
(* (g4-to-ebnf.ts, the same code line for line).                           *)
(***************************************************************************)
EqText == <<":", ":", "=">>

IsOp(tk, text) == tk.type = "op" /\ tk.text = text

\* function skipWs(): while (i < tokens.length && tokens[i].type === "ws") i++
RECURSIVE SkipWs(_, _)
SkipWs(tokens, i) ==
    IF i <= Len(tokens) /\ tokens[i].type = "ws" THEN SkipWs(tokens, i + 1) ELSE i

\* "Capture leading comments": each comment starts an entry of leadComments,
\* and one whitespace token behind it is added to that entry
RECURSIVE LeadLoop(_, _, _)
LeadLoop(tokens, i, lead) ==
    IF ~(i <= Len(tokens) /\ tokens[i].type = "comment") THEN [i |-> i, lead |-> lead]
    ELSE IF i + 1 <= Len(tokens) /\ tokens[i + 1].type = "ws"
         THEN LeadLoop(tokens, i + 2, Append(lead, tokens[i].text \o tokens[i + 1].text))
         ELSE LeadLoop(tokens, i + 1, Append(lead, tokens[i].text))

\* the rhs loop that ends at the first ";": parentheses are not counted
RECURSIVE RhsLoopNoDepth(_, _, _, _)
RhsLoopNoDepth(tokens, i, depthPar, rhs) ==
    IF i > Len(tokens) THEN [i |-> i, rhs |-> rhs]
    ELSE IF IsOp(tokens[i], <<";">>) THEN [i |-> i + 1, rhs |-> rhs]
    ELSE RhsLoopNoDepth(tokens, i + 1, depthPar, Append(rhs, tokens[i]))

\* "Collect RHS tokens until top-level ';'"
RECURSIVE RhsLoop(_, _, _, _)
RhsLoop(tokens, i, depthPar, rhs) ==
    IF i > Len(tokens) THEN [i |-> i, rhs |-> rhs]
    ELSE LET tk == tokens[i]
             d1 == IF IsOp(tk, <<"(">>) THEN depthPar + 1 ELSE depthPar
             d2 == IF IsOp(tk, <<")">>) THEN Max(0, d1 - 1) ELSE d1
         IN  IF IsOp(tk, <<";">>) /\ d2 = 0
             THEN [i |-> i + 1, rhs |-> rhs]
             ELSE RhsLoop(tokens, i + 1, d2, Append(rhs, tk))

\* "swallow trailing whitespace/comments between rules into leadComments"
RECURSIVE Swallow(_, _, _)
Swallow(tokens, i, lead) ==
    IF i <= Len(tokens) /\ tokens[i].type \in {"ws", "comment"}
    THEN Swallow(tokens, i + 1, Append(lead, tokens[i].text))
    ELSE [i |-> i, lead |-> lead]

\* the step taken when the token behind the name is not ::= , were the
\* fragment dropped up to its ";" instead of resuming behind the name
RECURSIVE AbandonToSemicolon(_, _)
AbandonToSemicolon(tokens, i) ==
    IF i > Len(tokens) THEN i
    ELSE IF IsOp(tokens[i], <<";">>) THEN i + 1
    ELSE AbandonToSemicolon(tokens, i + 1)

\* "Not a proper rule; continue scanning": the cursor stays behind the name
\* and the whitespace after it
Abandon(tokens, i) == i

\* The main loop of extractRules from cursor i, with the pending leading
\* comments and the rules found so far.  A rule carries the history field
\* at, the index of its ::= token, which the source does not keep.
RECURSIVE ExtractLoop(_, _, _, _)
ExtractLoop(tokens, i, leadComments, found) ==
    IF i > Len(tokens) THEN found
    ELSE LET c  == LeadLoop(tokens, i, leadComments)
             i1 == SkipWs(tokens, c.i)
         IN  IF i1 > Len(tokens) THEN found
             ELSE IF tokens[i1].type # "ident"
                  THEN ExtractLoop(tokens, i1 + 1, c.lead, found)
             ELSE LET name == tokens[i1].text
                      i2   == SkipWs(tokens, i1 + 1)
                  IN  IF ~(i2 <= Len(tokens) /\ IsOp(tokens[i2], EqText))
                      THEN ExtractLoop(tokens, Abandon(tokens, i2), c.lead, found)
                      ELSE LET r == RhsLoop(tokens, i2 + 1, 0, <<>>)
                               w == Swallow(tokens, r.i, <<>>)
                           IN  ExtractLoop(tokens, w.i, w.lead,
                                   Append(found, [name |-> name, rhs |-> r.rhs,
                                                  leadingComments |-> c.lead, at |-> i2]))

ExtractWithHistory(tokens) == ExtractLoop(tokens, 1, <<>>, <<>>)

\* the Rule records of the source: name, rhs, leadingComments
RuleOf(h) == [name |-> h.name, rhs |-> h.rhs, leadingComments |-> h.leadingComments]

extractRules(tokens) ==
    LET hs == ExtractWithHistory(tokens) IN [k \in 1..Len(hs) |-> RuleOf(hs[k])]

extractEBNFRules(tokens) ==
    LET hs == ExtractWithHistory(tokens) IN [k \in 1..Len(hs) |-> RuleOf(hs[k])]

RuleHistory(tokens) ==
    LET hs == ExtractWithHistory(tokens) IN [k \in 1..Len(hs) |-> hs[k].at]

(***************************************************************************)
(* Alternative Splitter: splitTopLevelAlternatives (both files).           *)
(***************************************************************************)
\* the splitter that pushes the last alternative only when it holds a token
RECURSIVE SplitLoopDropEmptyLast(_, _, _, _, _)
SplitLoopDropEmptyLast(rhs, k, depthPar, cur, out) ==
    IF k > Len(rhs) THEN (IF cur = <<>> THEN out ELSE Append(out, cur))
    ELSE LET tk == rhs[k]
             d1 == IF IsOp(tk, <<"(">>) THEN depthPar + 1 ELSE depthPar
             d2 == IF IsOp(tk, <<")">>) THEN Max(0, d1 - 1) ELSE d1
         IN  IF d2 = 0 /\ IsOp(tk, <<"|">>)
             THEN SplitLoopDropEmptyLast(rhs, k + 1, d2, <<>>, Append(out, cur))
             ELSE SplitLoopDropEmptyLast(rhs, k + 1, d2, Append(cur, tk), out)

\* for (const tk of rhs) { ... }  alts.push(cur)
RECURSIVE SplitLoop(_, _, _, _, _)
SplitLoop(rhs, k, depthPar, cur, out) ==
    IF k > Len(rhs) THEN Append(out, cur)
    ELSE LET tk == rhs[k]
             d1 == IF IsOp(tk, <<"(">>) THEN depthPar + 1 ELSE depthPar
             d2 == IF IsOp(tk, <<")">>) THEN Max(0, d1 - 1) ELSE d1
         IN  IF d2 = 0 /\ IsOp(tk, <<"|">>)
             THEN SplitLoop(rhs, k + 1, d2, <<>>, Append(out, cur))
             ELSE SplitLoop(rhs, k + 1, d2, Append(cur, tk), out)

splitTopLevelAlternatives(rhs) == SplitLoop(rhs, 1, 0, <<>>, <<>>)

(***************************************************************************)
(* The formatting path up to the split: ebnf-prettify.ts main, and         *)
(* formatEBNF of g4-to-ebnf.ts.                                            *)
(***************************************************************************)
\* const rules = extractRules(tokens)
ExtractRules ==
    /\ pc = "tokenize"
    /\ rules' = extractRules(tks)
    /\ ruleAt' = RuleHistory(tks)
    /\ pc' = "extractRules"
    /\ UNCHANGED <<src, tks, alts>>
    /\ UNCHANGED chkVars
    /\ UNCHANGED fmtVars
    /\ UNCHANGED cnvVars

\* const rules = extractEBNFRules(tokens)
ExtractEBNFRules ==
    /\ pc = "tokenizeEBNF"
    /\ rules' = extractEBNFRules(tks)
    /\ ruleAt' = RuleHistory(tks)
    /\ pc' = "extractEBNFRules"
    /\ UNCHANGED <<src, tks, alts>>
    /\ UNCHANGED chkVars
    /\ UNCHANGED fmtVars
    /\ UNCHANGED cnvVars

\* for (const r of rules) ... formatRule(r): splitTopLevelAlternatives(r.rhs)
SplitAlternatives ==
    /\ pc \in {"extractRules", "extractEBNFRules"}
    /\ alts' = [k \in 1..Len(rules) |-> splitTopLevelAlternatives(rules[k].rhs)]
    /\ pc' = "split"
    /\ UNCHANGED <<src, tks, rules, ruleAt>>
    /\ UNCHANGED chkVars
    /\ UNCHANGED fmtVars
    /\ UNCHANGED cnvVars

\* all texts that are at most n lexemes of ls, one after the other
LexemeTexts(ls, n) == {Concat(q) : q \in TextsUpTo(ls, n)}

(***************************************************************************)
(* Specification SpecExtract: scan and extraction of every text of at most *)
(* MaxLexemes lexemes of ExtractLexemes.                                   *)
(***************************************************************************)
ExtractLexemes ==
    { <<"a">>, EqText, <<";">>, <<"(">>, <<")">>, <<" ">>, <<"'", ";", "'">> }

InitExtract ==
    /\ pc = "start"
    /\ src \in LexemeTexts(ExtractLexemes, MaxLexemes)
    /\ tks = <<>>
    /\ rules = <<>>
    /\ ruleAt = <<>>
    /\ alts = <<>>
    /\ startOverride = <<>>
    /\ ChkIdle
    /\ CnvIdle
    /\ FmtIdle

NextExtract == Tokenize \/ TokenizeEBNF \/ ExtractRules \/ ExtractEBNFRules

SpecExtract == InitExtract /\ [][NextExtract]_vars

Extracted == pc \in {"extractRules", "extractEBNFRules"}

(***************************************************************************)
(* Parenthesis depth of a token sequence, stated on the sequence alone.    *)
(***************************************************************************)
\* "(" tokens minus ")" tokens among ts[a..b]
ParenSum(ts, a, b) ==
    Cardinality({m \in a..b : IsOp(ts[m], <<"(">>)})
        - Cardinality({m \in a..b : IsOp(ts[m], <<")">>)})

\* the least value the running sum takes over the prefixes of ts[a..b]
LeastParenSum(ts, a, b) ==
    CHOOSE v \in {ParenSum(ts, a, k) : k \in (a - 1)..b} :
        \A k \in (a - 1)..b : v <= ParenSum(ts, a, k)

\* the depth behind ts[a..b] of a counter that starts at 0, goes up on "(",
\* down on ")" and never below 0
FlooredDepth(ts, a, b) ==
    IF b < a THEN 0 ELSE ParenSum(ts, a, b) - LeastParenSum(ts, a, b)

\* the ";" operator tokens at depth 0 behind the ::= token at index e
Terminators(ts, e) ==
    {j \in (e + 1)..Len(ts) : IsOp(ts[j], <<";">>) /\ FlooredDepth(ts, e + 1, j - 1) = 0}

LeastOf(S) == CHOOSE v \in S : \A w \in S : v <= w

\* the index of the first depth-0 ";" behind e, or one past the last token
RhsStop(ts, e) ==
    IF Terminators(ts, e) = {} THEN Len(ts) + 1 ELSE LeastOf(Terminators(ts, e))

\* the index of the first token behind n that is not whitespace, or 0
NextNonWs(ts, n) ==
    LET S == {m \in (n + 1)..Len(ts) : ts[m].type # "ws"}
    IN  IF S = {} THEN 0 ELSE LeastOf(S)

\* the index of the last token before n that is not whitespace, or 0
PrevNonWs(ts, n) ==
    LET S == {m \in 1..(n - 1) : ts[m].type # "ws"}
    IN  IF S = {} THEN 0 ELSE CHOOSE v \in S : \A w \in S : v >= w

\* C3: every rule the token-based extractor returns has as rhs exactly the
\* tokens strictly between its ::= token and the first ";" operator token at
\* parenthesis depth 0 behind it (up to the end of the tokens when there is
\* none): no depth-0 ";" and nothing behind the terminator is in rhs, and a
\* ";" in parentheses, in a quoted literal or in a character class does not
\* end the rule.  The rule's name is the identifier before the ::= token.
C3_RhsIsRunToTerminator ==
    Extracted =>
        /\ Len(ruleAt) = Len(rules)
        /\ \A k \in 1..Len(rules) :
              LET e == ruleAt[k]
              IN  /\ e \in 1..Len(tks)
                  /\ IsOp(tks[e], EqText)
                  /\ rules[k].rhs = SubSeq(tks, e + 1, RhsStop(tks, e) - 1)
                  /\ PrevNonWs(tks, e) # 0
                  /\ tks[PrevNonWs(tks, e)].type = "ident"
                  /\ rules[k].name = tks[PrevNonWs(tks, e)].text

\* a rule was extracted whose rhs holds a quoted literal with a ";" in it and
\* ends at a depth-0 ";"
C3_Witness ==
    /\ Extracted
    /\ \E k \in 1..Len(rules) :
          /\ Terminators(tks, ruleAt[k]) # {}
          /\ \E m \in 1..Len(rules[k].rhs) :
                /\ rules[k].rhs[m].type = "string"
                /\ \E c \in 1..Len(rules[k].rhs[m].text) : rules[k].rhs[m].text[c] = ";"

\* token n is a rule head: an identifier whose next non-whitespace token is ::=
HeadAt(ts, n) ==
    /\ ts[n].type = "ident"
    /\ NextNonWs(ts, n) # 0
    /\ IsOp(ts[NextNonWs(ts, n)], EqText)

\* token n begins a well-formed rule: a head, then a rhs without ::= up to a
\* depth-0 ";"
WellFormedAt(ts, n) ==
    /\ HeadAt(ts, n)
    /\ LET e == NextNonWs(ts, n)
       IN  /\ Terminators(ts, e) # {}
           /\ \A m \in (e + 1)..(RhsStop(ts, e) - 1) : ~IsOp(ts[m], EqText)

\* token n lies in the rhs of an extracted rule
Absorbed(n) ==
    \E k \in 1..Len(rules) : ruleAt[k] < n /\ n <= ruleAt[k] + Len(rules[k].rhs)

\* the head at token n was extracted as a rule of its own
ExtractedAt(n) ==
    \E k \in 1..Len(rules) :
        /\ ruleAt[k] = NextNonWs(tks, n)
        /\ rules[k].name = tks[n].text
        /\ rules[k].rhs = SubSeq(tks, ruleAt[k] + 1, RhsStop(tks, ruleAt[k]) - 1)

\* C4 as claimed: every well-formed rule of the token sequence is extracted as
\* a rule of its own, whatever fragment (missing ::= or missing ";") stands
\* before it.
C4_EveryWellFormedRuleExtracted ==
    Extracted => \A n \in 1..Len(tks) : WellFormedAt(tks, n) => ExtractedAt(n)

\* C4 as amended: a rule head is extracted as a rule of its own, with its name
\* and its rhs, exactly when it does not lie in the rhs of an extracted rule;
\* a fragment missing ::= absorbs nothing, and a fragment missing its ";" has
\* a rhs that runs on to the next depth-0 ";" and absorbs the heads in it.
C4_RecoversOutsideAbsorbedRun ==
    Extracted => \A n \in 1..Len(tks) : HeadAt(tks, n) => (ExtractedAt(n) <=> ~Absorbed(n))

\* a well-formed rule was extracted behind a fragment that is missing its ::=
C4_Witness ==
    /\ Extracted
    /\ \E n \in 1..Len(tks) :
          /\ WellFormedAt(tks, n) /\ ExtractedAt(n)
          /\ \E m \in 1..(n - 1) : tks[m].type = "ident" /\ ~HeadAt(tks, m)

(***************************************************************************)
(* Specification SpecSplit: the formatting path on one rule  a::= body ;   *)
(* for every body of at most MaxRhsLexemes lexemes of SplitLexemes.        *)
(***************************************************************************)
SplitLexemes ==
    { <<"a">>, <<"|">>, <<"(">>, <<")">>, <<" ">>, <<"'", "|", "'">> }

InitSplit ==
    /\ pc = "start"
    /\ src \in {<<"a">> \o EqText \o body \o <<";">> :
                    body \in LexemeTexts(SplitLexemes, MaxRhsLexemes)}
    /\ tks = <<>>
    /\ rules = <<>>
    /\ ruleAt = <<>>
    /\ alts = <<>>
    /\ startOverride = <<>>
    /\ ChkIdle
    /\ CnvIdle
    /\ FmtIdle

NextSplit ==
    Tokenize \/ TokenizeEBNF \/ ExtractRules \/ ExtractEBNFRules \/ SplitAlternatives

SpecSplit == InitSplit /\ [][NextSplit]_vars

BarTok == Tok("op", <<"|">>)

\* the alternatives as, one after the other with a "|" token between neighbours
RECURSIVE JoinWithBars(_)
JoinWithBars(as) ==
    IF Len(as) = 0 THEN <<>>
    ELSE IF Len(as) = 1 THEN as[1]
    ELSE as[1] \o <<BarTok>> \o JoinWithBars(Tail(as))

\* the "|" operator tokens of rhs at parenthesis depth 0
TopLevelBars(rhs) ==
    {j \in 1..Len(rhs) : IsOp(rhs[j], <<"|">>) /\ FlooredDepth(rhs, 1, j) = 0}

\* C5: the splitter returns k+1 alternatives for a rhs with k "|" operator
\* tokens at parenthesis depth 0, empty ones kept: at least one, the whole rhs
\* when k = 0, and the alternatives joined by "|" tokens are the rhs.
C5_SplitCountAndJoin ==
    pc = "split" =>
        /\ Len(alts) = Len(rules)
        /\ \A k \in 1..Len(rules) :
              /\ Len(alts[k]) = Cardinality(TopLevelBars(rules[k].rhs)) + 1
              /\ JoinWithBars(alts[k]) = rules[k].rhs
              /\ (TopLevelBars(rules[k].rhs) = {} => alts[k] = <<rules[k].rhs>>)

\* a rhs was split that has a "|" in parentheses, a depth-0 "|" and an empty
\* alternative
C5_Witness ==
    /\ pc = "split"
    /\ \E k \in 1..Len(rules) :
          /\ Len(alts[k]) >= 2
          /\ \E m \in 1..Len(alts[k]) : alts[k][m] = <<>>
          /\ \E m \in 1..Len(alts[k]) : \E j \in 1..Len(alts[k][m]) : alts[k][m][j] = BarTok

(***************************************************************************)
(* ebnf-check.ts: the validator.  It works on the text itself, with        *)
(* regular expressions and character loops; each regular expression is     *)
(* modelled by the matches it finds, leftmost first.                       *)
(***************************************************************************)
\* String.prototype.trim
RECURSIVE TrimStart(_)
TrimStart(s) == IF s # <<>> /\ IsWs(Head(s)) THEN TrimStart(Tail(s)) ELSE s

RECURSIVE TrimEnd(_)
TrimEnd(s) ==
    IF s # <<>> /\ IsWs(s[Len(s)]) THEN TrimEnd(SubSeq(s, 1, Len(s) - 1)) ELSE s

Trim(s) == TrimEnd(TrimStart(s))

\* the line terminators of a regular expression: what "." does not match
IsLineEnd(c) == c \in {"\n", "\r"}

\* the first position at or behind j where "*" close stands, or 0
FindClose(s, j, close) ==
    LET S == {m \in j..(Len(s) - 1) : s[m] = "*" /\ s[m + 1] = close}
    IN  IF S = {} THEN 0 ELSE LeastOf(S)

\* s.replace(/\(\*[\s\S]*?\*\)/g, "") with open = "(" and close = ")",
\* s.replace(/\/\*[\s\S]*?\*\//g, "") with open = close = "/"
RECURSIVE StripBlock(_, _, _, _)
StripBlock(s, i, open, close) ==
    IF i > Len(s) THEN <<>>
    ELSE IF s[i] = open /\ At(s, i + 1) = "*" /\ FindClose(s, i + 2, close) # 0
         THEN StripBlock(s, FindClose(s, i + 2, close) + 2, open, close)
         ELSE <<s[i]>> \o StripBlock(s, i + 1, open, close)

\* the end of the line from j: ".*$" under the m flag
RECURSIVE EolFrom(_, _)
EolFrom(s, j) == IF j <= Len(s) /\ ~IsLineEnd(s[j]) THEN EolFrom(s, j + 1) ELSE j

\* s.replace(/(^|\s)\/\/.*$/gm, (_m, p1) => (p1 ? p1 : ""))
RECURSIVE StripLine(_, _)
StripLine(s, i) ==
    IF i > Len(s) THEN <<>>
    ELSE IF (i = 1 \/ IsLineEnd(s[i - 1])) /\ s[i] = "/" /\ At(s, i + 1) = "/"
         THEN StripLine(s, EolFrom(s, i + 2))
    ELSE IF IsWs(s[i]) /\ At(s, i + 1) = "/" /\ At(s, i + 2) = "/"
         THEN <<s[i]>> \o StripLine(s, EolFrom(s, i + 3))
    ELSE <<s[i]>> \o StripLine(s, i + 1)

stripComments(s) ==
    StripLine(StripBlock(StripBlock(s, 1, "(", ")"), 1, "/", "/"), 1)

\* the number of "\n" in a text: (upTo.match(/\n/g) || []).length
CountNewlines(s) == Cardinality({m \in 1..Len(s) : s[m] = "\n"})

\* One attempt of /(^|\n)\s*([A-Za-z_]\w*)\s*::=\s*([\s\S]*?)\s*;/ at position
\* p, which is the start of the text or a "\n": the match, or ok = FALSE.
RuleMatchAt(s, p) ==
    LET q     == IF s[p] = "\n" THEN p + 1 ELSE p
        w     == WsEnd(s, q)
        n     == IdentEnd(s, w + 1)
        w2    == WsEnd(s, n)
        after == w2 + 3
        semis == {m \in after..Len(s) : s[m] = ";"}
    IN  IF /\ IsIdentStart(At(s, w))
           /\ Slice(s, w2, w2 + 3) = EqText
           /\ semis # {}
        THEN [ok |-> TRUE, name |-> Slice(s, w, n),
              rhs |-> Trim(Slice(s, after, LeastOf(semis))),
              line |-> CountNewlines(SubSeq(s, 1, p - 1)) + 1,
              next |-> LeastOf(semis) + 1]
        ELSE [ok |-> FALSE]

\* while ((m = re.exec(src))) { ... rules.push({ name, rhs, line }) }
RECURSIVE ChkExtractLoop(_, _, _)
ChkExtractLoop(s, lastIndex, found) ==
    LET P == {p \in lastIndex..Len(s) : (p = 1 \/ s[p] = "\n") /\ RuleMatchAt(s, p).ok}
    IN  IF P = {} THEN found
        ELSE LET m == RuleMatchAt(s, LeastOf(P))
             IN  ChkExtractLoop(s, m.next,
                     Append(found, [name |-> m.name, rhs |-> m.rhs, line |-> m.line]))

chkExtractRules(s) == ChkExtractLoop(s, 1, <<>>)

\* /^[A-Z_][A-Z0-9_]*$/
isUpperIdent(id) ==
    /\ Len(id) >= 1
    /\ id[1] \in UpperChars \cup {"_"}
    /\ \A m \in 2..Len(id) : id[m] \in UpperChars \cup DigitChars \cup {"_"}

\* /^[a-z_][A-Za-z0-9_]*$/
isLowerIdent(id) ==
    /\ Len(id) >= 1
    /\ id[1] \in LowerChars \cup {"_"}
    /\ \A m \in 2..Len(id) : IsWordChar(id[m])

\* the inner loop of the quoted-string branch of splitAlternatives
RECURSIVE ChkQuoteEnd(_, _, _)
ChkQuoteEnd(s, i, quote) ==
    IF i > Len(s) THEN i
    ELSE IF s[i] = "\\" /\ i + 1 <= Len(s) THEN ChkQuoteEnd(s, i + 2, quote)
    ELSE IF s[i] = quote THEN i + 1
    ELSE ChkQuoteEnd(s, i + 1, quote)

\* the inner loop of the character-class branch of splitAlternatives
RECURSIVE ChkClassEnd(_, _, _)
ChkClassEnd(s, i, depthBr) ==
    IF ~(i <= Len(s) /\ depthBr > 0) THEN [i |-> i, depthBr |-> depthBr]
    ELSE IF s[i] = "\\" /\ i + 1 <= Len(s) THEN ChkClassEnd(s, i + 2, depthBr)
    ELSE IF s[i] = "[" THEN ChkClassEnd(s, i + 1, depthBr + 1)
    ELSE IF s[i] = "]" THEN ChkClassEnd(s, i + 1, depthBr - 1)
    ELSE ChkClassEnd(s, i + 1, depthBr)

\* the main loop of splitAlternatives, and what follows it
RECURSIVE ChkSplitLoop(_, _, _, _, _, _, _)
ChkSplitLoop(rhs, i, depthPar, depthBr, current, as, errs) ==
    IF i > Len(rhs)
    THEN LET e1 == IF depthPar # 0 THEN Append(errs, "Unbalanced parentheses") ELSE errs
             e2 == IF depthBr # 0 THEN Append(e1, "Unbalanced '[' or ']'") ELSE e1
             a2 == IF Len(Trim(current)) > 0 THEN Append(as, Trim(current)) ELSE as
             e3 == IF \E m \in 1..Len(a2) : Len(a2[m]) = 0
                   THEN Append(e2, "Empty alternative '|' detected") ELSE e2
         IN  [alts |-> a2, errors |-> e3]
    ELSE LET ch == rhs[i]
         IN  IF ch = "'" \/ ch = "\""
             THEN LET j == ChkQuoteEnd(rhs, i + 1, ch)
                  IN  ChkSplitLoop(rhs, j, depthPar, depthBr,
                                   current \o SubSeq(rhs, i, j - 1), as, errs)
             ELSE IF ch = "["
             THEN LET c == ChkClassEnd(rhs, i + 1, depthBr + 1)
                  IN  ChkSplitLoop(rhs, c.i, depthPar, c.depthBr,
                                   current \o SubSeq(rhs, i, c.i - 1), as, errs)
             ELSE IF ch = "("
             THEN ChkSplitLoop(rhs, i + 1, depthPar + 1, depthBr, Append(current, ch), as, errs)
             ELSE IF ch = ")"
             THEN ChkSplitLoop(rhs, i + 1, depthPar - 1, depthBr, Append(current, ch), as,
                               IF depthPar - 1 < 0 THEN Append(errs, "Unbalanced ')'") ELSE errs)
             ELSE IF ch = "|" /\ depthPar = 0 /\ depthBr = 0
             THEN ChkSplitLoop(rhs, i + 1, depthPar, depthBr, <<>>, Append(as, Trim(current)), errs)
             ELSE ChkSplitLoop(rhs, i + 1, depthPar, depthBr, Append(current, ch), as, errs)

splitAlternatives(rhs) == ChkSplitLoop(rhs, 1, 0, 0, <<>>, <<>>, <<>>)

\* the end of a match of /q([^q\\]|\\.)*q/ whose opening quote stands before
\* position j, or 0 when there is none
RECURSIVE QuotedMatchEnd(_, _, _)
QuotedMatchEnd(s, j, q) ==
    IF j > Len(s) THEN 0
    ELSE IF s[j] = q THEN j + 1
    ELSE IF s[j] = "\\"
         THEN IF j + 1 <= Len(s) /\ ~IsLineEnd(s[j + 1])
              THEN QuotedMatchEnd(s, j + 2, q) ELSE 0
    ELSE QuotedMatchEnd(s, j + 1, q)

\* expr.replace(/'([^'\\]|\\.)*'/g, " ") with q = "'", and the same for "\""
RECURSIVE RemoveQuoted(_, _, _)
RemoveQuoted(s, i, q) ==
    IF i > Len(s) THEN <<>>
    ELSE IF s[i] = q /\ QuotedMatchEnd(s, i + 1, q) # 0
         THEN <<" ">> \o RemoveQuoted(s, QuotedMatchEnd(s, i + 1, q), q)
         ELSE <<s[i]>> \o RemoveQuoted(s, i + 1, q)

\* .replace(/\[[^\]]*\]/g, " ")
RECURSIVE RemoveClasses(_, _)
RemoveClasses(s, i) ==
    IF i > Len(s) THEN <<>>
    ELSE LET S == {m \in (i + 1)..Len(s) : s[m] = "]"}
         IN  IF s[i] = "[" /\ S # {}
             THEN <<" ">> \o RemoveClasses(s, LeastOf(S) + 1)
             ELSE <<s[i]>> \o RemoveClasses(s, i + 1)

\* s.replace(/[()?*+]/g, " ")
RemoveOperators(s) ==
    [m \in 1..Len(s) |-> IF s[m] \in {"(", ")", "?", "*", "+"} THEN " " ELSE s[m]]

\* s.match(/\b[A-Za-z_]\w*\b/g) || []: the maximal word runs that start with
\* a letter or an underscore
RECURSIVE MatchIdents(_, _)
MatchIdents(s, i) ==
    IF i > Len(s) THEN <<>>
    ELSE IF IsWordChar(s[i])
         THEN LET e == IdentEnd(s, i)
              IN  IF IsIdentStart(s[i])
                  THEN <<SubSeq(s, i, e - 1)>> \o MatchIdents(s, e)
                  ELSE MatchIdents(s, e)
         ELSE MatchIdents(s, i + 1)

referencedIdents(expr) ==
    MatchIdents(
        RemoveOperators(
            RemoveClasses(RemoveQuoted(RemoveQuoted(expr, 1, "'"), 1, "\""), 1)), 1)

\* the parenthesis loop of firstIdentifier, from i = 1 and depth = 1
RECURSIVE GroupEnd(_, _, _)
GroupEnd(s, i, depth) ==
    IF ~(i <= Len(s) /\ depth > 0) THEN i
    ELSE IF s[i] = "(" THEN GroupEnd(s, i + 1, depth + 1)
    ELSE IF s[i] = ")" THEN GroupEnd(s, i + 1, depth - 1)
    ELSE GroupEnd(s, i + 1, depth)

\* for (;;) { s = s.trim(); skip a leading string, class or group; else break }
RECURSIVE SkipLeading(_)
SkipLeading(expr) ==
    LET s == Trim(expr)
    IN  IF s = <<>> THEN s
        ELSE IF s[1] = "'" \/ s[1] = "\""
             THEN SkipLeading(SubSeq(s, StringEnd(s, 2, s[1]), Len(s)))
        ELSE IF s[1] = "["
             THEN SkipLeading(SubSeq(s, ClassEnd(s, 2, 1), Len(s)))
        ELSE IF s[1] = "("
             THEN SkipLeading(SubSeq(s, GroupEnd(s, 2, 1), Len(s)))
        ELSE s

\* firstIdentifier: the first match of /\b[A-Za-z_]\w*\b/ behind the skipped
\* part, or the empty text for null
firstIdentifier(expr) ==
    LET ids == MatchIdents(SkipLeading(expr), 1)
    IN  IF ids = <<>> THEN <<>> ELSE ids[1]

(***************************************************************************)
(* The script of ebnf-check.ts.  A finding is a record whose kind tells     *)
(* which message was pushed and whose other fields are the values the      *)
(* message interpolates.                                                   *)
(***************************************************************************)
\* new Set(rules.map(r => r.name))
ruleNames(rs) == {rs[k].name : k \in 1..Len(rs)}

\* new Set([...ruleNames].filter(isUpperIdent))
upperRuleNames(rs) == {n \in ruleNames(rs) : isUpperIdent(n)}

\* a start rule that is always the first rule
StartRuleFirstRule(override, rs) ==
    IF override # <<>> THEN override
    ELSE IF rs # <<>> THEN rs[1].name ELSE <<>>

\* startOverride || rules.find(r => isLowerIdent(r.name))?.name || (rules[0]?.name || "")
StartRuleOf(override, rs) ==
    LET L == {k \in 1..Len(rs) : isLowerIdent(rs[k].name)}
    IN  IF override # <<>> THEN override
        ELSE IF L # {} THEN rs[LeastOf(L)].name
        ELSE IF rs # <<>> THEN rs[1].name ELSE <<>>

\* const stripped = stripComments(raw); const rules = extractRules(stripped);
\* the name sets; let startRule = ...; const errors = []; const warnings = []
CheckLoad ==
    /\ pc = "start"
    /\ stripped' = stripComments(src)
    /\ chkRules' = chkExtractRules(stripped')
    /\ startRule' = StartRuleOf(startOverride, chkRules')
    /\ errors' = <<>>
    /\ warnings' = <<>>
    /\ pc' = "loaded"
    /\ UNCHANGED fmtVars
    /\ UNCHANGED cnvVars
    /\ UNCHANGED <<src, tks, rules, ruleAt, alts, startOverride, depGraph, ri, exitCode>>

\* a function with one more (or one replaced) entry: Map.prototype.set
MapSet(f, key, val) ==
    [n \in DOMAIN f \cup {key} |-> IF n = key THEN val ELSE f[n]]

\* a duplicate check that only looks at the rule before
RECURSIVE DupLoopAdjacent(_, _, _, _)
DupLoopAdjacent(rs, k, seen, errs) ==
    IF k > Len(rs) THEN errs
    ELSE IF k > 1 /\ rs[k - 1].name = rs[k].name
         THEN DupLoopAdjacent(rs, k + 1, seen,
                  Append(errs, [kind |-> "duplicate", rule |-> rs[k].name,
                                line |-> rs[k].line, first |-> rs[k - 1].line]))
         ELSE DupLoopAdjacent(rs, k + 1, seen, errs)

\* for (const r of rules) { if (seen.has(r.name)) errors.push(...) else seen.set(...) }
RECURSIVE DupLoop(_, _, _, _)
DupLoop(rs, k, seen, errs) ==
    IF k > Len(rs) THEN errs
    ELSE IF rs[k].name \in DOMAIN seen
         THEN DupLoop(rs, k + 1, seen,
                  Append(errs, [kind |-> "duplicate", rule |-> rs[k].name,
                                line |-> rs[k].line, first |-> seen[rs[k].name]]))
         ELSE DupLoop(rs, k + 1, MapSet(seen, rs[k].name, rs[k].line), errs)

\* the Duplicates block, and const depGraph = new Map()
Duplicates ==
    /\ pc = "loaded"
    /\ errors' = DupLoop(chkRules, 1, <<>>, errors)
    /\ depGraph' = <<>>
    /\ ri' = 0
    /\ pc' = "perRule"
    /\ UNCHANGED fmtVars
    /\ UNCHANGED cnvVars
    /\ UNCHANGED <<src, tks, rules, ruleAt, alts, startOverride, stripped, chkRules,
                   startRule, warnings, exitCode>>

\* a classification that takes every undefined name for a missing rule
RefOutcomeNoTokens(id, rname, names, uppers) ==
    IF id = rname THEN "dep"
    ELSE IF id \in names THEN "dep"
    ELSE "undefined"

\* what the loop over ids does with one identifier: the if-chain on id
RefOutcome(id, rname, names, uppers) ==
    IF id = rname THEN "dep"
    ELSE IF id \in names THEN "dep"
    ELSE IF isUpperIdent(id)
         THEN IF id \notin uppers THEN "token" ELSE "none"
    ELSE IF ~isUpperIdent(id)
         THEN IF id \notin names THEN "undefined" ELSE "none"
    ELSE "none"

\* for (const id of ids) { ... }, on st = [errors, warnings, deps]
RECURSIVE IdLoop(_, _, _, _, _)
IdLoop(r, ids, m, rs, st) ==
    IF m > Len(ids) THEN st
    ELSE LET id == ids[m]
             o  == RefOutcome(id, r.name, ruleNames(rs), upperRuleNames(rs))
         IN  IdLoop(r, ids, m + 1, rs,
                 IF o = "dep" THEN [st EXCEPT !.deps = @ \cup {id}]
                 ELSE IF o = "token"
                 THEN [st EXCEPT !.warnings =
                          Append(@, [kind |-> "token", rule |-> r.name,
                                     line |-> r.line, id |-> id])]
                 ELSE IF o = "undefined"
                 THEN [st EXCEPT !.errors =
                          Append(@, [kind |-> "undefined", rule |-> r.name,
                                     line |-> r.line, id |-> id])]
                 ELSE st)

\* for (const alt of alts) { the ids; Direct left recursion? }
RECURSIVE AltLoop(_, _, _, _, _)
AltLoop(r, as, a, rs, st) ==
    IF a > Len(as) THEN st
    ELSE LET st1 == IdLoop(r, referencedIdents(as[a]), 1, rs, st)
             st2 == IF firstIdentifier(as[a]) = r.name
                    THEN [st1 EXCEPT !.warnings =
                             Append(@, [kind |-> "leftrec", rule |-> r.name,
                                        line |-> r.line, alt |-> as[a]])]
                    ELSE st1
         IN  AltLoop(r, as, a + 1, rs, st2)

\* balErrs.forEach(e => errors.push(...))
BalanceErrors(r, balErrs) ==
    [m \in 1..Len(balErrs) |->
        [kind |-> "balance", rule |-> r.name, line |-> r.line, msg |-> balErrs[m]]]

\* one round of the loop under "Per-rule checks", for the rule behind ri
PerRule ==
    /\ pc = "perRule"
    /\ ri < Len(chkRules)
    /\ LET r  == chkRules[ri + 1]
           sp == splitAlternatives(r.rhs)
           st == AltLoop(r, sp.alts, 1, chkRules,
                         [errors |-> errors \o BalanceErrors(r, sp.errors),
                          warnings |-> warnings, deps |-> {}])
       IN  /\ errors' = st.errors
           /\ warnings' = st.warnings
           /\ depGraph' = MapSet(depGraph, r.name, st.deps)
    /\ ri' = ri + 1
    /\ UNCHANGED fmtVars
    /\ UNCHANGED cnvVars
    /\ UNCHANGED <<pc, src, tks, rules, ruleAt, alts, startOverride, stripped, chkRules,
                   startRule, exitCode>>

\* while (stack.length) { cur = stack.pop(); ... }: the stack is a set here,
\* the order in which it is emptied does not change the set it returns
RECURSIVE ReachLoop(_, _, _)
ReachLoop(stack, reachable, graph) ==
    IF stack = {} THEN reachable
    ELSE LET cur  == CHOOSE n \in stack : TRUE
             rest == stack \ {cur}
         IN  IF cur \in reachable THEN ReachLoop(rest, reachable, graph)
             ELSE ReachLoop(
                      rest \cup (IF cur \in DOMAIN graph
                                 THEN {d \in graph[cur] : d \notin reachable \cup {cur}}
                                 ELSE {}),
                      reachable \cup {cur}, graph)

\* for (const r of rules) if (!reachable.has(r.name) && isLowerIdent(r.name)) ...
RECURSIVE UnreachableLoop(_, _, _, _, _)
UnreachableLoop(rs, k, reachable, start, warns) ==
    IF k > Len(rs) THEN warns
    ELSE UnreachableLoop(rs, k + 1, reachable, start,
             IF rs[k].name \notin reachable /\ isLowerIdent(rs[k].name)
             THEN Append(warns, [kind |-> "unreachable", rule |-> rs[k].name,
                                 line |-> rs[k].line, start |-> start])
             ELSE warns)

\* the block under "Unreachable rules (from startRule)"
Unreachable ==
    /\ pc = "perRule"
    /\ ri = Len(chkRules)
    /\ warnings' =
           IF startRule = <<>>
           THEN Append(warnings, [kind |-> "nostart"])
           ELSE UnreachableLoop(chkRules, 1, ReachLoop({startRule}, {}, depGraph),
                                startRule, warnings)
    /\ pc' = "unreachable"
    /\ UNCHANGED fmtVars
    /\ UNCHANGED cnvVars
    /\ UNCHANGED <<src, tks, rules, ruleAt, alts, startOverride, stripped, chkRules,
                   startRule, errors, depGraph, ri, exitCode>>

\* a report that fails on any finding
ReportAnyFinding ==
    /\ pc = "unreachable"
    /\ exitCode' = IF Len(errors) = 0 /\ Len(warnings) = 0 THEN 0 ELSE 1
    /\ pc' = "report"
    /\ UNCHANGED fmtVars
    /\ UNCHANGED cnvVars
    /\ UNCHANGED <<src, tks, rules, ruleAt, alts, startOverride, stripped, chkRules,
                   startRule, errors, warnings, depGraph, ri>>

\* the Report block: process.exitCode = 1 when there are errors
Report ==
    /\ pc = "unreachable"
    /\ exitCode' = IF Len(errors) = 0 THEN 0 ELSE 1
    /\ pc' = "report"
    /\ UNCHANGED fmtVars
    /\ UNCHANGED cnvVars
    /\ UNCHANGED <<src, tks, rules, ruleAt, alts, startOverride, stripped, chkRules,
                   startRule, errors, warnings, depGraph, ri>>

NextCheck == CheckLoad \/ Duplicates \/ PerRule \/ Unreachable \/ Report

(***************************************************************************)
(* Specification SpecCheck: the validator on every grammar of at most      *)
(* MaxRules rule lines, each a name of CheckNames, "::=", a body of        *)
(* CheckBodies and ";", with and without a --start override.               *)
(***************************************************************************)
MaxRules == 3

CheckNames == { <<"s">>, <<"a">>, <<"b">>, <<"E">> }

CheckBodies ==
    { <<"a", " ", "E">>,
      <<"b", " ", "|", " ", "'", "x", "'", " ", "T">> }

CheckLines ==
    { n \o <<" ">> \o EqText \o <<" ">> \o body \o <<" ", ";", "\n">> :
          n \in CheckNames, body \in CheckBodies }

Overrides == { <<>>, <<"b">> }

InitCheck ==
    /\ pc = "start"
    /\ src \in LexemeTexts(CheckLines, MaxRules)
    /\ tks = <<>>
    /\ rules = <<>>
    /\ ruleAt = <<>>
    /\ alts = <<>>
    /\ startOverride \in Overrides
    /\ ChkIdle
    /\ CnvIdle
    /\ FmtIdle

SpecCheck == InitCheck /\ [][NextCheck]_vars

AfterLoad == pc \in {"loaded", "perRule", "unreachable", "report"}

AfterDuplicates == pc \in {"perRule", "unreachable", "report"}

AfterUnreachable == pc \in {"unreachable", "report"}

\* the positions in a sequence of findings that hold a finding of one kind
OfKind(findings, kind) == {j \in 1..Len(findings) : findings[j].kind = kind}

\* the positions of the extracted rules that carry the name n
RulesNamed(n) == {k \in 1..Len(chkRules) : chkRules[k].name = n}

\* C6: once the duplicate check has run, every name that is carried by m
\* extracted rules has exactly m - 1 duplicate errors, each of them giving the
\* line of the first rule of that name, so that the number of duplicate errors
\* is the number of extracted rules minus the number of distinct names.
C6_DuplicateCount ==
    AfterDuplicates =>
        /\ Cardinality(OfKind(errors, "duplicate"))
               = Len(chkRules) - Cardinality({chkRules[k].name : k \in 1..Len(chkRules)})
        /\ \A k \in 1..Len(chkRules) :
               Cardinality({j \in OfKind(errors, "duplicate") :
                                errors[j].rule = chkRules[k].name})
                   = Cardinality(RulesNamed(chkRules[k].name)) - 1
        /\ \A j \in OfKind(errors, "duplicate") :
               /\ RulesNamed(errors[j].rule) # {}
               /\ errors[j].first = chkRules[LeastOf(RulesNamed(errors[j].rule))].line

\* two rules of one name, one per line, and exactly one duplicate error
C6_Witness ==
    /\ AfterDuplicates
    /\ Len(chkRules) = 2
    /\ chkRules[1].name = chkRules[2].name
    /\ Cardinality(OfKind(errors, "duplicate")) = 1

\* the rules the per-rule loop has gone through
Processed == IF AfterDuplicates THEN ri ELSE 0

\* the identifiers the validator reads in rule k, alternative by alternative
RefIds(k) ==
    LET as == splitAlternatives(chkRules[k].rhs).alts
    IN  Concat([a \in 1..Len(as) |-> referencedIdents(as[a])])

AllUpper(id) == \A m \in 1..Len(id) : id[m] \in UpperChars \cup DigitChars \cup {"_"}

\* the outcome the reference check is to give an identifier
RefClass(id) ==
    IF RulesNamed(id) # {} THEN "dep"
    ELSE IF AllUpper(id) THEN "token"
    ELSE "undefined"

\* the references of the processed rules: <<k, m>> is the m-th identifier of
\* rule k, and ids[k] the identifiers of rule k
RefsIn(ids) == UNION {{<<k, m>> : m \in 1..Len(ids[k])} : k \in DOMAIN ids}

\* the findings of one kind are, one for one, the references of that class
FindingsMatch(findings, kind, ids) ==
    LET inClass == {o \in RefsIn(ids) : RefClass(ids[o[1]][o[2]]) = kind}
        found   == OfKind(findings, kind)
    IN  /\ Cardinality(found) = Cardinality(inClass)
        /\ \A o \in RefsIn(ids) :
               Cardinality({j \in found :
                                /\ findings[j].rule = chkRules[o[1]].name
                                /\ findings[j].line = chkRules[o[1]].line
                                /\ findings[j].id = ids[o[1]][o[2]]})
                   = Cardinality({q \in inClass :
                                      /\ chkRules[q[1]].name = chkRules[o[1]].name
                                      /\ chkRules[q[1]].line = chkRules[o[1]].line
                                      /\ ids[q[1]][q[2]] = ids[o[1]][o[2]]})

\* C7: each identifier the reference check reads has exactly one outcome.  The
\* "reference to undefined rule" errors are, one for one, the references that
\* are neither a rule name nor all-uppercase; the token warnings are, one for
\* one, the all-uppercase references that are no rule name; and the dependency
\* set recorded for the rule just processed is the set of its references that
\* are rule names, which leave no finding.
C7_ReferenceOutcomes ==
    AfterDuplicates =>
        LET ids == [k \in 1..Processed |-> RefIds(k)]
        IN  /\ FindingsMatch(errors, "undefined", ids)
            /\ FindingsMatch(warnings, "token", ids)
            /\ (pc = "perRule" /\ ri >= 1) =>
                   /\ chkRules[ri].name \in DOMAIN depGraph
                   /\ depGraph[chkRules[ri].name]
                          = {ids[ri][m] : m \in {q \in 1..Len(ids[ri]) :
                                                     RefClass(ids[ri][q]) = "dep"}}

\* the identifiers of all rules that fall into one class
AllRefsInClass(cls) ==
    {id \in UNION {{RefIds(k)[m] : m \in 1..Len(RefIds(k))} : k \in 1..Len(chkRules)} :
         RefClass(id) = cls}

\* a grammar, wholly processed, with a reference of each class
C7_Witness ==
    /\ pc = "perRule"
    /\ ri = Len(chkRules)
    /\ AllRefsInClass("dep") # {}
    /\ AllRefsInClass("token") # {}
    /\ AllRefsInClass("undefined") # {}
    /\ OfKind(errors, "undefined") # {}
    /\ OfKind(warnings, "token") # {}

\* a name of the shape [a-z_][A-Za-z0-9_]*
LowerShaped(n) ==
    /\ n # <<>>
    /\ n[1] \in LowerChars \cup {"_"}
    /\ \A m \in 2..Len(n) : n[m] \in LowerChars \cup UpperChars \cup DigitChars \cup {"_"}

\* C9: a non-empty override is the start rule; without one the start rule is
\* the first rule with a lower-case-shaped name, or else the first rule; and
\* when there is neither an override nor a rule, the reachability block pushes
\* exactly one "no start rule" warning and no unreachable warning, and
\* otherwise no "no start rule" warning.
C9_StartRule ==
    /\ AfterLoad =>
           IF startOverride # <<>> THEN startRule = startOverride
           ELSE IF \E k \in 1..Len(chkRules) : LowerShaped(chkRules[k].name)
           THEN \E k \in 1..Len(chkRules) :
                    /\ LowerShaped(chkRules[k].name)
                    /\ \A j \in 1..(k - 1) : ~LowerShaped(chkRules[j].name)
                    /\ startRule = chkRules[k].name
           ELSE IF chkRules # <<>> THEN startRule = chkRules[1].name
           ELSE startRule = <<>>
    /\ AfterUnreachable =>
           IF startOverride = <<>> /\ chkRules = <<>>
           THEN /\ Cardinality(OfKind(warnings, "nostart")) = 1
                /\ OfKind(warnings, "unreachable") = {}
           ELSE OfKind(warnings, "nostart") = {}

\* no override, a first rule whose name is not lower-case-shaped and a later
\* rule whose name is: the later rule is the start rule
C9_Witness ==
    /\ AfterUnreachable
    /\ startOverride = <<>>
    /\ Len(chkRules) >= 2
    /\ ~LowerShaped(chkRules[1].name)
    /\ \E k \in 2..Len(chkRules) : startRule = chkRules[k].name /\ LowerShaped(startRule)

\* the dependency edges: A to B when B is read in the rhs of a rule named A
DepEdges ==
    UNION {{<<chkRules[k].name, RefIds(k)[m]>> : m \in 1..Len(RefIds(k))} :
               k \in 1..Len(chkRules)}

\* the names that can be reached from the names of S along the edges E
RECURSIVE ReachedFrom(_, _)
ReachedFrom(S, E) ==
    LET T == S \cup {e[2] : e \in {d \in E : d[1] \in S}}
    IN  IF T = S THEN S ELSE ReachedFrom(T, E)

\* C10: the names reported unreachable are the lower-case-shaped rule names
\* that cannot be reached from the start rule along the dependency edges.
C10_UnreachableSet ==
    (AfterUnreachable /\ startRule # <<>>) =>
        {warnings[j].rule : j \in OfKind(warnings, "unreachable")}
            = {n \in {chkRules[k].name : k \in 1..Len(chkRules)} :
                   LowerShaped(n) /\ n \notin ReachedFrom({startRule}, DepEdges)}

(***************************************************************************)
(* Specification SpecLeft: the validator on every grammar of one rule       *)
(* named a whose right-hand side is at most MaxAltLexemes lexemes of        *)
(* LeftLexemes.                                                            *)
(***************************************************************************)
MaxAltLexemes == 4

LeftLexemes ==
    { <<"a">>, <<"b">>, <<"'", "a", "'">>, <<"'", "a", "'", "*">>,
      <<"(">>, <<")">>, <<"|">>, <<" ">> }

InitLeft ==
    /\ pc = "start"
    /\ src \in { <<"a", " ">> \o EqText \o <<" ">> \o body \o <<" ", ";", "\n">> :
                     body \in LexemeTexts(LeftLexemes, MaxAltLexemes) }
    /\ tks = <<>>
    /\ rules = <<>>
    /\ ruleAt = <<>>
    /\ alts = <<>>
    /\ startOverride = <<>>
    /\ ChkIdle
    /\ CnvIdle
    /\ FmtIdle

SpecLeft == InitLeft /\ [][NextCheck]_vars

\* the alternatives the validator found in the one rule of the grammar
LeftAlts == splitAlternatives(chkRules[1].rhs).alts

\* the token behind a parenthesised group whose "(" stands before token k
RECURSIVE GroupEndTok(_, _, _)
GroupEndTok(ts, k, depth) ==
    IF k > Len(ts) \/ depth = 0 THEN k
    ELSE IF IsOp(ts[k], <<"(">>) THEN GroupEndTok(ts, k + 1, depth + 1)
    ELSE IF IsOp(ts[k], <<")">>) THEN GroupEndTok(ts, k + 1, depth - 1)
    ELSE GroupEndTok(ts, k + 1, depth)

\* the first token behind the leading groups, literals and classes
RECURSIVE LeadEndTok(_, _)
LeadEndTok(ts, k) ==
    IF k > Len(ts) THEN k
    ELSE IF ts[k].type \in {"ws", "string", "charclass"} THEN LeadEndTok(ts, k + 1)
    ELSE IF IsOp(ts[k], <<"(">>) THEN LeadEndTok(ts, GroupEndTok(ts, k + 1, 1))
    ELSE k

\* the leading identifier of an alternative: the first identifier among the
\* tokens behind its leading groups, literals and classes, if there is one
LeadingIdent(alt) ==
    LET ts == tokenize(alt)
        I  == {k \in LeadEndTok(ts, 1)..Len(ts) :
                   ts[k].type = "ident" /\ IsIdentStart(ts[k].text[1])}
    IN  IF I = {} THEN <<>> ELSE ts[LeastOf(I)].text

\* C8: in a rule whose right-hand side the validator finds balanced, a
\* left-recursion warning is pushed for an alternative if and only if the
\* leading identifier of the alternative is the name of the rule.
C8_WarnsIffLeadingIdentIsRule ==
    (/\ pc = "perRule" /\ ri = 1 /\ Len(chkRules) = 1
     /\ splitAlternatives(chkRules[1].rhs).errors = <<>>) =>
        \A a \in 1..Len(LeftAlts) :
            (\E j \in OfKind(warnings, "leftrec") :
                 warnings[j].rule = chkRules[1].name /\ warnings[j].alt = LeftAlts[a])
                <=> (LeadingIdent(LeftAlts[a]) = chkRules[1].name)

(***************************************************************************)
(* Specification SpecTerm: the validator on every grammar of at most        *)
(* MaxTermRules rule lines whose names are parser-rule-shaped, terminal-    *)
(* shaped, or both.                                                        *)
(***************************************************************************)
MaxTermRules == 3

TermNames == { <<"s">>, <<"E">>, <<"_">>, <<"_", "X">> }

TermBodies == { <<"E">>, <<"'", "x", "'">> }

TermLines ==
    { n \o <<" ">> \o EqText \o <<" ">> \o body \o <<" ", ";", "\n">> :
          n \in TermNames, body \in TermBodies }

InitTerm ==
    /\ pc = "start"
    /\ src \in LexemeTexts(TermLines, MaxTermRules)
    /\ tks = <<>>
    /\ rules = <<>>
    /\ ruleAt = <<>>
    /\ alts = <<>>
    /\ startOverride = <<>>
    /\ ChkIdle
    /\ CnvIdle
    /\ FmtIdle

SpecTerm == InitTerm /\ [][NextCheck]_vars

\* a name of the shape [A-Z_][A-Z0-9_]*
UpperShaped(n) ==
    /\ n # <<>>
    /\ n[1] \in UpperChars \cup {"_"}
    /\ \A m \in 2..Len(n) : n[m] \in UpperChars \cup DigitChars \cup {"_"}

\* C11: no unreachable warning is about a rule whose name has the shape
\* [A-Z_][A-Z0-9_]*.
C11_UpperNeverUnreachable ==
    AfterUnreachable =>
        \A j \in OfKind(warnings, "unreachable") : ~UpperShaped(warnings[j].rule)

(***************************************************************************)
(* Specification SpecSeverity: the validator on every grammar of at most    *)
(* MaxSevRules rule lines that between them raise every kind of finding.    *)
(***************************************************************************)
MaxSevRules == 3

SevNames == { <<"s">>, <<"a">> }

SevBodies ==
    { <<"a", " ", "T">>,
      <<"x", " ", "(">>,
      <<"a", " ", "|", " ", "s">> }

SevLines ==
    { n \o <<" ">> \o EqText \o <<" ">> \o body \o <<" ", ";", "\n">> :
          n \in SevNames, body \in SevBodies }

InitSeverity ==
    /\ pc = "start"
    /\ src \in LexemeTexts(SevLines, MaxSevRules)
    /\ tks = <<>>
    /\ rules = <<>>
    /\ ruleAt = <<>>
    /\ alts = <<>>
    /\ startOverride = <<>>
    /\ ChkIdle
    /\ CnvIdle
    /\ FmtIdle

SpecSeverity == InitSeverity /\ [][NextCheck]_vars

\* C12: the error list only ever holds balance, duplicate and undefined-rule
\* findings, the warning list only ever holds unreachable, left-recursion,
\* undefined-token and no-start-rule findings, and the exit code is 1 once the
\* report has run with a non-empty error list and 0 in every other case.
C12_SeveritySplit ==
    /\ \A j \in 1..Len(errors) : errors[j].kind \in {"balance", "duplicate", "undefined"}
    /\ \A j \in 1..Len(warnings) :
           warnings[j].kind \in {"unreachable", "leftrec", "token", "nostart"}
    /\ exitCode = IF pc = "report" /\ errors # <<>> THEN 1 ELSE 0

\* a run that ends with warnings of every kind, no error, and exit code 0
C12_Witness ==
    /\ pc = "report"
    /\ errors = <<>>
    /\ OfKind(warnings, "unreachable") # {}
    /\ OfKind(warnings, "leftrec") # {}
    /\ OfKind(warnings, "token") # {}
    /\ exitCode = 0

(***************************************************************************)
(* Specification SpecBalance: the validator on every grammar of one rule    *)
(* named a whose right-hand side is at most MaxBalLexemes lexemes of        *)
(* BalLexemes.                                                             *)
(***************************************************************************)
MaxBalLexemes == 4

BalLexemes ==
    { <<"a">>, <<"(">>, <<")">>, <<"[">>, <<"]">>, <<"|">>, <<" ">>, <<"'", "(", "'">> }

InitBalance ==
    /\ pc = "start"
    /\ src \in { <<"a", " ">> \o EqText \o <<" ">> \o body \o <<" ", ";", "\n">> :
                     body \in LexemeTexts(BalLexemes, MaxBalLexemes) }
    /\ tks = <<>>
    /\ rules = <<>>
    /\ ruleAt = <<>>
    /\ alts = <<>>
    /\ startOverride = <<>>
    /\ ChkIdle
    /\ CnvIdle
    /\ FmtIdle

SpecBalance == InitBalance /\ [][NextCheck]_vars

\* the characters of a text that stand outside its quoted literals
OutsideLiterals(t) ==
    LET ts == tokenize(t)
    IN  Concat([k \in 1..Len(ts) |-> IF ts[k].type = "string" THEN <<>> ELSE ts[k].text])

\* openers minus closers among the first n characters of t
Excess(t, n, open, close) ==
    Cardinality({m \in 1..n : t[m] = open}) - Cardinality({m \in 1..n : t[m] = close})

\* every closer of the kind has its opener before it
NoUnmatchedClose(t, open, close) == \A n \in 0..Len(t) : Excess(t, n, open, close) >= 0

\* t nests parentheses and brackets properly: read from left to right, every
\* closer closes the opener that was opened last, and nothing stays open
RECURSIVE NestsFrom(_, _, _)
NestsFrom(t, m, stack) ==
    IF m > Len(t) THEN stack = <<>>
    ELSE IF t[m] \in {"(", "["} THEN NestsFrom(t, m + 1, <<t[m]>> \o stack)
    ELSE IF t[m] \in {")", "]"}
         THEN /\ stack # <<>>
              /\ Head(stack) = (IF t[m] = ")" THEN "(" ELSE "[")
              /\ NestsFrom(t, m + 1, Tail(stack))
    ELSE NestsFrom(t, m + 1, stack)

WellNested(t) == NestsFrom(t, 1, <<>>)

\* the balance messages pushed for the one rule of the grammar
BalMsgs ==
    LET J == {j \in OfKind(errors, "balance") :
                  errors[j].msg # "Empty alternative '|' detected"}
    IN  {errors[j].msg : j \in J}

BalCount ==
    Cardinality({j \in OfKind(errors, "balance") :
                     errors[j].msg # "Empty alternative '|' detected"})

BalChecked == pc = "perRule" /\ ri = 1 /\ Len(chkRules) = 1

\* properly nested delimiters give no balance error
C13_MatchedGivesNone ==
    (BalChecked /\ WellNested(OutsideLiterals(chkRules[1].rhs))) => BalCount = 0

\* one extra opener of one kind, with no delimiter of the other kind in the
\* text, gives exactly the one error of that kind
C13_ExtraOpenGivesOne ==
    BalChecked =>
        LET t == OutsideLiterals(chkRules[1].rhs)
        IN  /\ (/\ \A m \in 1..Len(t) : t[m] \notin {"[", "]"}
                /\ NoUnmatchedClose(t, "(", ")")
                /\ Excess(t, Len(t), "(", ")") = 1)
                   => (BalCount = 1 /\ BalMsgs = {"Unbalanced parentheses"})
            /\ (/\ \A m \in 1..Len(t) : t[m] \notin {"(", ")"}
                /\ NoUnmatchedClose(t, "[", "]")
                /\ Excess(t, Len(t), "[", "]") = 1)
                   => (BalCount = 1 /\ BalMsgs = {"Unbalanced '[' or ']'"})

\* an unmatched closer of one kind, with no delimiter of the other kind in
\* the text, is reported
C13_UnmatchedCloseReported ==
    BalChecked =>
        LET t == OutsideLiterals(chkRules[1].rhs)
        IN  /\ (/\ \A m \in 1..Len(t) : t[m] \notin {"[", "]"}
                /\ ~NoUnmatchedClose(t, "(", ")")) => BalCount >= 1
            /\ (/\ \A m \in 1..Len(t) : t[m] \notin {"(", ")"}
                /\ ~NoUnmatchedClose(t, "[", "]")) => BalCount >= 1

\* C13: for a right-hand side whose parentheses and brackets outside quoted
\* literals are matched the balance check pushes no error; for one extra
\* unmatched "(" or "[" it pushes exactly the one error of that delimiter; and
\* an unmatched ")" or "]" is reported.
C13_BalanceSoundness ==
    /\ C13_MatchedGivesNone
    /\ C13_ExtraOpenGivesOne
    /\ C13_UnmatchedCloseReported

\* the alternatives of a right-hand side as the token-based splitter gives
\* them, empty ones included
TokenAlts(rhs) == splitTopLevelAlternatives(tokenize(rhs))

\* an alternative with zero non-whitespace content
IsEmptyAlt(alt) == \A k \in 1..Len(alt) : alt[k].type = "ws"

\* C14: in a rule whose right-hand side nests its delimiters properly, an
\* alternative with zero non-whitespace content, wherever it stands and also
\* when it is the whole right-hand side, makes the validator push the
\* "Empty alternative" error.
C14_EmptyAlternativeReported ==
    (BalChecked /\ WellNested(OutsideLiterals(chkRules[1].rhs))) =>
        ((\E a \in 1..Len(TokenAlts(chkRules[1].rhs)) :
              IsEmptyAlt(TokenAlts(chkRules[1].rhs)[a]))
            => \E j \in OfKind(errors, "balance") :
                   errors[j].msg = "Empty alternative '|' detected")

\* the findings of a list that are about a rule stand in the order in which
\* their rules are declared
InDeclarationOrder(findings) ==
    \A i, j \in {k \in 1..Len(findings) : findings[k].kind # "nostart"} :
        i < j => LeastOf(RulesNamed(findings[i].rule)) <= LeastOf(RulesNamed(findings[j].rule))

\* C15: in a grammar whose rule names are all different, a finding about an
\* earlier-declared rule never stands behind a finding about a later-declared
\* rule, in the error list and in the warning list.
C15_DeclarationOrder ==
    (/\ AfterDuplicates
     /\ Cardinality({chkRules[k].name : k \in 1..Len(chkRules)}) = Len(chkRules)) =>
        /\ InDeclarationOrder(errors)
        /\ InDeclarationOrder(warnings)

(***************************************************************************)
(* Specification SpecPlain: the validator on every text of at most          *)
(* MaxPlainLexemes lexemes of PlainLexemes, most of which hold no rule.     *)
(***************************************************************************)
MaxPlainLexemes == 4

PlainLexemes == { <<"a">>, <<"b", " ", "c">>, <<" ">>, <<"\n">>, EqText, <<";">> }

InitPlain ==
    /\ pc = "start"
    /\ src \in LexemeTexts(PlainLexemes, MaxPlainLexemes)
    /\ tks = <<>>
    /\ rules = <<>>
    /\ ruleAt = <<>>
    /\ alts = <<>>
    /\ startOverride = <<>>
    /\ ChkIdle
    /\ CnvIdle
    /\ FmtIdle

SpecPlain == InitPlain /\ [][NextCheck]_vars

\* C20: when the text holds words but no rule, the run ends with a non-zero
\* exit code.
C20_NoRuleFails ==
    (/\ pc = "report"
     /\ chkRules = <<>>
     /\ extractRules(tokenize(src)) = <<>>
     /\ \E m \in 1..Len(src) : IsWordChar(src[m])) => exitCode # 0

(***************************************************************************)
(* Layout Renderer: joinTokensNicely, softWrap, formatRule and the main     *)
(* script of ebnf-prettify.ts.                                             *)
(***************************************************************************)
\* " ".repeat(n)
Spaces(n) == [m \in 1..n |-> " "]

\* parts.join(sep)
RECURSIVE Join(_, _)
Join(parts, sep) ==
    IF parts = <<>> THEN <<>>
    ELSE IF Len(parts) = 1 THEN parts[1]
    ELSE parts[1] \o sep \o Join(Tail(parts), sep)

\* out.endsWith("\n")
EndsWithNewline(t) == t # <<>> /\ t[Len(t)] = "\n"

QuantOps == { <<")">>, <<"?">>, <<"*">>, <<"+">> }

IsAtom(tk) == tk.type \in {"ident", "string", "charclass"}

\* needSpaceBetween(a, b), with none = TRUE for a = null
needSpaceBetween(none, a, b) ==
    IF none THEN FALSE
    ELSE IF a.type = "comment" \/ b.type = "comment" THEN TRUE
    ELSE IF b.type = "op" /\ b.text \in QuantOps THEN FALSE
    ELSE IF IsOp(a, <<"(">>) THEN FALSE
    ELSE IF b.type = "op" /\ (b.text = EqText \/ b.text = <<"|">>) THEN TRUE
    ELSE IF a.type = "op" /\ (a.text = EqText \/ a.text = <<"|">>) THEN TRUE
    ELSE IF IsOp(b, <<",">>) THEN FALSE
    ELSE IF IsOp(a, <<",">>) THEN TRUE
    ELSE IF (IsAtom(a) \/ IsOp(a, <<")">>)) /\ (IsAtom(b) \/ IsOp(b, <<"(">>)) THEN TRUE
    ELSE FALSE

\* what the op branch of joinTokensNicely appends for an operator token
OpText(tk) ==
    IF tk.text = <<",">> THEN <<",", " ">>
    ELSE IF tk.text \in QuantOps \cup {<<"(">>} THEN tk.text
    ELSE IF tk.text = <<"|">> THEN <<" ", "|", " ">>
    ELSE IF tk.text = EqText THEN <<" ">> \o EqText \o <<" ">>
    ELSE tk.text

\* for (const tk of toks) { ... } of joinTokensNicely; prev = <<>> is null,
\* otherwise prev = <<the previous token>>
RECURSIVE JoinLoop(_, _, _, _)
JoinLoop(toks, k, out, prev) ==
    IF k > Len(toks) THEN out
    ELSE LET tk == toks[k]
         IN  IF tk.type = "ws" THEN JoinLoop(toks, k + 1, out, prev)
             ELSE IF tk.type = "comment"
             THEN JoinLoop(toks, k + 1,
                      (IF EndsWithNewline(out) THEN out ELSE out \o <<"\n">>)
                          \o TrimEnd(tk.text) \o <<"\n">>,
                      <<>>)
             ELSE LET sp == IF needSpaceBetween(prev = <<>>,
                                                IF prev = <<>> THEN tk ELSE prev[1], tk)
                            THEN <<" ">> ELSE <<>>
                  IN  JoinLoop(toks, k + 1,
                          out \o sp \o (IF tk.type = "op" THEN OpText(tk) ELSE tk.text),
                          <<tk>>)

\* out.replace(/[ \t]+\n/g, "\n"): a space or tab goes when only spaces and
\* tabs stand between it and a newline
RECURSIVE BlankEnd(_, _)
BlankEnd(t, m) == IF m <= Len(t) /\ t[m] \in {" ", "\t"} THEN BlankEnd(t, m + 1) ELSE m

\* the characters of t at the positions in S, in their order
Keep(t, S) ==
    [k \in 1..Cardinality(S) |->
        t[CHOOSE m \in S : Cardinality({j \in S : j <= m}) = k]]

\* out.replace(/[ \t]+\n/g, "\n"): t without the blanks and tabs that run up
\* to a newline
StripBlanksBeforeNewline(t) ==
    Keep(t, {k \in 1..Len(t) :
                ~(t[k] \in {" ", "\t"} /\ At(t, BlankEnd(t, k)) = "\n")})

joinTokensNicely(toks) == Trim(StripBlanksBeforeNewline(JoinLoop(toks, 1, <<>>, <<>>)))

\* text.split(/\s\|\s/g)
RECURSIVE SplitAtBars(_, _, _)
SplitAtBars(t, m, parts) ==
    LET bars == {k \in m..(Len(t) - 2) :
                    IsWs(t[k]) /\ t[k + 1] = "|" /\ IsWs(t[k + 2])}
    IN  IF bars = {} THEN Append(parts, SubSeq(t, m, Len(t)))
        ELSE SplitAtBars(t, LeastOf(bars) + 3,
                         Append(parts, SubSeq(t, m, LeastOf(bars) - 1)))

\* text.split(/\s+/)
RECURSIVE SplitAtWs(_, _, _)
SplitAtWs(t, m, parts) ==
    LET ws == {k \in m..Len(t) : IsWs(t[k])}
    IN  IF ws = {} THEN Append(parts, SubSeq(t, m, Len(t)))
        ELSE SplitAtWs(t, WsEnd(t, LeastOf(ws) + 1),
                       Append(parts, SubSeq(t, m, LeastOf(ws) - 1)))

\* for (const w of words) { ... } of softWrap, and the last line
RECURSIVE WrapLoop(_, _, _, _, _, _)
WrapLoop(words, k, max, hangingIndent, out, line) ==
    IF k > Len(words)
    THEN IF line # <<>> THEN out \o (IF out # <<>> THEN <<"\n">> ELSE <<>>) \o line ELSE out
    ELSE LET w      == words[k]
             joined == line \o (IF line # <<>> THEN <<" ">> ELSE <<>>) \o w
         IN  IF Len(joined) > max
             THEN WrapLoop(words, k + 1, max, hangingIndent,
                           out \o (IF out # <<>> THEN <<"\n">> ELSE <<>>) \o line,
                           hangingIndent \o w)
             ELSE WrapLoop(words, k + 1, max, hangingIndent, out, joined)

softWrap(text, max, hangingIndent) ==
    IF Len(text) <= max THEN text
    ELSE LET parts == SplitAtBars(text, 1, <<>>)
         IN  IF Len(parts) > 1
             THEN Join([k \in 1..Len(parts) |->
                           IF k = 1 THEN parts[k]
                           ELSE hangingIndent \o <<"|", " ">> \o parts[k]], <<"\n">>)
             ELSE WrapLoop(SplitAtWs(text, 1, <<>>), 1, max, hangingIndent, <<>>, <<>>)

\* the body of a rule of several alternatives, before the wrap
RECURSIVE BodyLoop(_, _, _, _)
BodyLoop(as, k, indent, body) ==
    IF k > Len(as) THEN body
    ELSE BodyLoop(as, k + 1, indent,
             body \o indent \o <<"|", " ">> \o as[k]
                  \o (IF k = Len(as) THEN <<>> ELSE <<"\n">>))

\* a renderer that keeps the alternatives on one line when that line fits
formatRuleOneLine(r, w) ==
    LET split  == splitTopLevelAlternatives(r.rhs)
        as     == [k \in 1..Len(split) |-> joinTokensNicely(split[k])]
        head   == r.name \o <<" ">> \o EqText \o <<" ">>
        indent == Spaces(Len(head))
        lead   == Concat(r.leadingComments)
        line   == head \o Join(as, <<" ", "|", " ">>)
    IN  IF Len(as) = 1 \/ Len(line) + 2 <= w
        THEN lead \o softWrap(line, w, indent) \o <<" ", ";">>
        ELSE lead \o softWrap(BodyLoop(as, 2, indent, head \o as[1] \o <<"\n">>), w, indent)
                  \o <<" ", ";">>

formatRule(r, w) ==
    LET split  == splitTopLevelAlternatives(r.rhs)
        as     == [k \in 1..Len(split) |-> joinTokensNicely(split[k])]
        head   == r.name \o <<" ">> \o EqText \o <<" ">>
        indent == Spaces(Len(head))
        lead   == Concat(r.leadingComments)
    IN  IF Len(as) = 1
        THEN lead \o softWrap(head \o as[1], w, indent) \o <<" ", ";">>
        ELSE lead \o softWrap(BodyLoop(as, 2, indent, head \o as[1] \o <<"\n">>), w, indent)
                  \o <<" ", ";">>

\* raw.replace(/[ \t]+/g, " ")
RECURSIVE CollapseBlanks(_, _)
CollapseBlanks(t, m) ==
    IF m > Len(t) THEN <<>>
    ELSE IF t[m] \in {" ", "\t"} THEN <<" ">> \o CollapseBlanks(t, BlankEnd(t, m))
    ELSE <<t[m]>> \o CollapseBlanks(t, m + 1)

\* the text the main script writes for the rules rs of the text raw
Formatted(raw, rs, w) ==
    IF Len(rs) = 0
    THEN Trim(StripBlanksBeforeNewline(CollapseBlanks(raw, 1))) \o <<"\n">>
    ELSE Join([k \in 1..Len(rs) |-> formatRule(rs[k], w)], <<"\n", "\n">>) \o <<"\n">>

\* the rest of the main script of ebnf-prettify.ts: the fallback for a text
\* without rules, or pieces.join("\n\n") + "\n"
Format ==
    /\ pc = "extractRules"
    /\ output' = Formatted(src, rules, width)
    /\ pc' = "format"
    /\ UNCHANGED <<src, tks, rules, ruleAt, alts, width>>
    /\ UNCHANGED chkVars
    /\ UNCHANGED cnvVars

NextFormat == Tokenize \/ ExtractRules \/ Format

(***************************************************************************)
(* Specification SpecFormat: the formatter, at its default width, on every  *)
(* text of at most MaxFmtLexemes lexemes of FmtLexemes.                     *)
(***************************************************************************)
MaxFmtLexemes == 5

FmtLexemes ==
    { <<"a">>, EqText, <<";">>, <<" ">>,
      <<"(", "*", "c", "*", ")">>, <<"/", "/", "c", "\n">> }

InitFormat ==
    /\ pc = "start"
    /\ src \in LexemeTexts(FmtLexemes, MaxFmtLexemes)
    /\ tks = <<>>
    /\ rules = <<>>
    /\ ruleAt = <<>>
    /\ alts = <<>>
    /\ startOverride = <<>>
    /\ ChkIdle
    /\ CnvIdle
    /\ FmtIdle

SpecFormat == InitFormat /\ [][NextFormat]_vars

\* C16: for every extracted rule R, the text render(R) is scanned and
\* extracted as one rule, and rendering that rule gives render(R) again.
C16_RenderIdempotent ==
    pc = "format" =>
        \A k \in 1..Len(rules) :
            LET once  == formatRule(rules[k], width)
                again == extractRules(tokenize(once))
            IN  /\ Len(again) = 1
                /\ formatRule(again[1], width) = once

\* the text sub stands somewhere in the text t
OccursIn(sub, t) ==
    \E m \in 1..(Len(t) - Len(sub) + 1) : SubSeq(t, m, m + Len(sub) - 1) = sub

\* C19: when at least one rule is extracted, the text of every comment token
\* of the input stands in the formatted output.
C19_CommentsPreserved ==
    (pc = "format" /\ Len(rules) >= 1) =>
        \A k \in 1..Len(tks) : tks[k].type = "comment" => OccursIn(tks[k].text, output)

(***************************************************************************)
(* Specification SpecWrap: the formatter, at width 40 and at width 100, on  *)
(* every rule a ::= A1 | ... | An ; of at most MaxAlts alternatives, each   *)
(* one or two names, short or long.                                        *)
(***************************************************************************)
MaxAlts == 3

Widths == { 40, 100 }

ShortName == <<"b">>

LongName == <<"L", "o", "n", "g", "R", "u", "l", "e", "N", "a", "m", "e",
              "N", "u", "m", "b", "e", "r", "1", "2", "3", "4", "5">>

WrapAlts ==
    { x : x \in {ShortName, LongName} } \cup
    { x \o <<" ">> \o y : x \in {ShortName, LongName}, y \in {ShortName, LongName} }

\* the alternatives A1 ... An as the text A1 | ... | An
AltLists(n) == UNION {[1..k -> WrapAlts] : k \in 1..n}

InitWrap ==
    /\ pc = "start"
    /\ src \in { <<"a", " ">> \o EqText \o <<" ">> \o Join(as, <<" ", "|", " ">>)
                     \o <<" ", ";">> : as \in AltLists(MaxAlts) }
    /\ tks = <<>>
    /\ rules = <<>>
    /\ ruleAt = <<>>
    /\ alts = <<>>
    /\ startOverride = <<>>
    /\ ChkIdle
    /\ CnvIdle
    /\ width \in Widths
    /\ output = <<>>

SpecWrap == InitWrap /\ [][NextFormat]_vars

\* the lines of a text: the runs between its newlines
RECURSIVE LinesFrom(_, _)
LinesFrom(t, m) ==
    LET ends == {k \in m..Len(t) : t[k] = "\n"}
    IN  IF ends = {} THEN <<SubSeq(t, m, Len(t))>>
        ELSE <<SubSeq(t, m, LeastOf(ends) - 1)>> \o LinesFrom(t, LeastOf(ends) + 1)

LinesOf(t) == LinesFrom(t, 1)

\* the alternatives written in the text of the rule: what stands between
\* "a ::= " and " ;", cut at every " | "
RECURSIVE CutAtBars(_, _)
CutAtBars(t, m) ==
    LET bars == {k \in m..(Len(t) - 2) : SubSeq(t, k, k + 2) = <<" ", "|", " ">>}
    IN  IF bars = {} THEN <<SubSeq(t, m, Len(t))>>
        ELSE <<SubSeq(t, m, LeastOf(bars) - 1)>> \o CutAtBars(t, LeastOf(bars) + 3)

WrittenAlts == CutAtBars(SubSeq(src, 7, Len(src) - 2), 1)

\* the one line a ::= A1 | ... | An ;
OneLine == SubSeq(src, 1, Len(src))

\* the lines a ::= A1, then | Ak under the first alternative, " ;" at the end
SeparateLines ==
    [k \in 1..Len(WrittenAlts) |->
        (IF k = 1 THEN <<"a", " ">> \o EqText \o <<" ">> ELSE Spaces(6) \o <<"|", " ">>)
            \o WrittenAlts[k]
            \o (IF k = Len(WrittenAlts) THEN <<" ", ";">> ELSE <<>>)]

\* C17 as it was stated: a rule of several alternatives whose one-line form
\* fits the width is written on that one line.
C17_OneLineWhenItFits ==
    (pc = "format" /\ Len(WrittenAlts) >= 2 /\ Len(OneLine) <= width) =>
        output = OneLine \o <<"\n">>

\* the lines that hold more than whitespace
NonBlank(ls) == SelectSeq(ls, LAMBDA l : \E k \in 1..Len(l) : ~IsWs(l[k]))

\* C17: a rule of several alternatives is written with one alternative per
\* line, the first behind a ::= and every later one behind a bar under the
\* first, at every width, also one that would hold a ::= A | B | C ; on one
\* line; only a rule of one alternative that fits the width is written on
\* one line.
C17_AlternativesOnSeparateLines ==
    pc = "format" =>
        /\ Len(WrittenAlts) >= 2 => NonBlank(LinesOf(output)) = SeparateLines
        /\ (Len(WrittenAlts) = 1 /\ Len(OneLine) <= width) => output = OneLine \o <<"\n">>

\* three alternatives at a width that would hold them on one line, written
\* on three lines
C17_Witness ==
    /\ pc = "format"
    /\ Len(WrittenAlts) = 3
    /\ Len(OneLine) <= width
    /\ output = Join(SeparateLines, <<"\n">>) \o <<"\n">>

\* C18: a rule of n >= 2 alternatives is written as exactly n lines, whatever
\* the width: the first alternative behind a ::= , every later one behind a bar
\* under the first, " ;" at the end of the last, no other line.
C18_ExactlyNLines ==
    (pc = "format" /\ Len(WrittenAlts) >= 2) =>
        LinesOf(output) = SeparateLines \o << <<>> >>

(***************************************************************************)
(* Specification SpecQuote: the validator on one rule a ::= body ; whose    *)
(* body is made of names, quote characters and an operator.                *)
(***************************************************************************)
MaxQuoteLexemes == 4

InitQuote ==
    /\ pc = "start"
    /\ src \in { <<"a", " ">> \o EqText \o <<" ">> \o body \o <<" ", ";", "\n">> :
                     body \in LexemeTexts({ <<"a">>, <<"b">>, <<"'">>, <<"\"">>,
                                            <<"+">>, <<" ">> }, MaxQuoteLexemes) }
    /\ tks = <<>>
    /\ rules = <<>>
    /\ ruleAt = <<>>
    /\ alts = <<>>
    /\ startOverride = <<>>
    /\ ChkIdle
    /\ CnvIdle
    /\ FmtIdle

SpecQuote == InitQuote /\ [][NextCheck]_vars

\* a quoted literal of the text t is opened and never closed
UnclosedLiteral(t) ==
    LET ts == tokenize(t)
    IN  \E k \in 1..Len(ts) :
            /\ ts[k].type = "string"
            /\ \/ Len(ts[k].text) = 1
               \/ ts[k].text[Len(ts[k].text)] # ts[k].text[1]

\* C21: a grammar with a quoted literal that is opened and never closed is
\* reported with at least one error, and the run fails.
C21_UnclosedQuoteReported ==
    (pc = "report" /\ UnclosedLiteral(src)) => (errors # <<>> /\ exitCode = 1)

(***************************************************************************)
(* The converter g4-to-ebnf.ts without --format, on one grammar file.       *)
(***************************************************************************)
\* the path of the grammar file, as given on the command line
G4Path == <<"G", ".", "g", "4">>

removeBlockComments(s) == StripBlock(s, 1, "/", "/")

removeLineComments(s) == StripLine(s, 1)

\* s.replace(/[ \t]+/g, " ").replace(/\r/g, "")
collapseWhitespace(s) == SelectSeq(CollapseBlanks(s, 1), LAMBDA c : c # "\r")

\* the passes of processFile over the raw text.  stripAtActions,
\* stripGrammarHeader, stripTopLevelBlocks, stripRuleAnnotations,
\* stripLabeledAlternatives, stripElementLabels, stripLexerCommands and
\* stripBracedCode replace only matches that hold one of @ { # = [ -> or one
\* of the words grammar, options, tokens, channels, import, mode, returns,
\* locals; a grammar text without these passes them unchanged, and such are
\* the texts the converter is given here.
StripPasses(raw) == collapseWhitespace(removeLineComments(removeBlockComments(raw)))

\* s.replace(/\s+/g, " ")
RECURSIVE CollapseWs(_, _)
CollapseWs(s, i) ==
    IF i > Len(s) THEN <<>>
    ELSE IF IsWs(s[i]) THEN <<" ">> \o CollapseWs(s, WsEnd(s, i))
    ELSE <<s[i]>> \o CollapseWs(s, i + 1)

\* the lookahead (?![^\[]*\]) fails at k: some "]" stands behind k with no
\* "[" between
InsideClassLookahead(s, k) ==
    \E j \in (k + 1)..Len(s) : s[j] = "]" /\ \A n \in (k + 1)..(j - 1) : s[n] # "["

\* s.split(/;(?![^\[]*\])/g), from position i on
RECURSIVE SplitPieces(_, _)
SplitPieces(s, i) ==
    LET K == {k \in i..Len(s) : s[k] = ";" /\ ~InsideClassLookahead(s, k)}
    IN  IF K = {} THEN <<SubSeq(s, i, Len(s))>>
        ELSE <<SubSeq(s, i, LeastOf(K) - 1)>> \o SplitPieces(s, LeastOf(K) + 1)

\* trimmed.match(/^([S]\w*)\s*:\s*([\s\S]*)$/) from position p of t, for the
\* set S of first characters: the rule in a one-element sequence, or <<>>
RuleMatch(t, p, S, isLexer, isFragment) ==
    IF p <= Len(t) /\ t[p] \in S /\ At(t, WsEnd(t, IdentEnd(t, p + 1))) = ":"
    THEN << [name       |-> SubSeq(t, p, IdentEnd(t, p + 1) - 1),
             isLexer    |-> isLexer,
             rhs        |-> Trim(SubSeq(t, WsEnd(t, IdentEnd(t, p + 1)) + 1, Len(t))),
             isFragment |-> isFragment] >>
    ELSE <<>>

\* the body of the loop of extractRules for one piece
PieceRule(piece) ==
    LET trimmed   == Trim(piece)
        word      == <<"f", "r", "a", "g", "m", "e", "n", "t">>
        fragMatch == IF SubSeq(trimmed, 1, Min(8, Len(trimmed))) = word
                        /\ WsEnd(trimmed, 9) > 9
                     THEN RuleMatch(trimmed, WsEnd(trimmed, 9), UpperChars \cup {"_"},
                                    TRUE, TRUE)
                     ELSE <<>>
        lexMatch  == RuleMatch(trimmed, 1, UpperChars \cup {"_"}, TRUE, FALSE)
        parMatch  == RuleMatch(trimmed, 1, LowerChars \cup {"_"}, FALSE, FALSE)
    IN  IF trimmed = <<>> THEN <<>>
        ELSE IF fragMatch # <<>> THEN fragMatch
        ELSE IF lexMatch # <<>> THEN lexMatch
        ELSE parMatch

\* extractRules of g4-to-ebnf.ts
g4ExtractRules(s) ==
    LET pieces == SplitPieces(s, 1)
    IN  Concat([k \in 1..Len(pieces) |-> PieceRule(pieces[k])])

\* cleanRHS; its four strip passes are those of StripPasses
cleanRHS(rhs) ==
    LET r == Trim(CollapseWs(rhs, 1))
        K == {k \in 1..Len(r) : r[k] = "|" /\ \A n \in (k + 1)..Len(r) : IsWs(r[n])}
    IN  IF K = {} THEN r ELSE Trim(SubSeq(r, 1, LeastOf(K) - 1))

\* the loop of tidyOperators
RECURSIVE TidyLoop(_, _, _, _, _, _)
TidyLoop(s, i, inSingle, inDouble, inClass, out) ==
    IF i > Len(s) THEN out
    ELSE LET ch == s[i]
             esc == ch = "\\" /\ i + 1 <= Len(s)
         IN  IF ~inDouble /\ ~inClass /\ ch = "'"
             THEN TidyLoop(s, i + 1, ~inSingle, inDouble, inClass, Append(out, ch))
             ELSE IF ~inSingle /\ ~inClass /\ ch = "\""
             THEN TidyLoop(s, i + 1, inSingle, ~inDouble, inClass, Append(out, ch))
             ELSE IF ~inSingle /\ ~inDouble /\ ch = "["
             THEN TidyLoop(s, i + 1, inSingle, inDouble, TRUE, Append(out, ch))
             ELSE IF inClass
             THEN IF esc
                  THEN TidyLoop(s, i + 2, inSingle, inDouble, inClass, out \o <<ch, s[i + 1]>>)
                  ELSE TidyLoop(s, i + 1, inSingle, inDouble, ch # "]", Append(out, ch))
             ELSE IF inSingle \/ inDouble
             THEN IF esc
                  THEN TidyLoop(s, i + 2, inSingle, inDouble, inClass, out \o <<ch, s[i + 1]>>)
                  ELSE TidyLoop(s, i + 1, inSingle, inDouble, inClass, Append(out, ch))
             ELSE IF ch \in {"|", ":", "(", ")", "?", "*", "+"}
             THEN TidyLoop(s, i + 1, inSingle, inDouble, inClass, out \o <<" ", ch, " ">>)
             ELSE TidyLoop(s, i + 1, inSingle, inDouble, inClass, Append(out, ch))

tidyOperators(s) == Trim(CollapseWs(TidyLoop(s, 1, FALSE, FALSE, FALSE, <<>>), 1))

\* emitRule
emitRule(r) ==
    LET t    == Trim(tidyOperators(cleanRHS(r.rhs)))
        K    == {k \in 1..Len(t) : t[k] = ";" /\ \A n \in (k + 1)..Len(t) : IsWs(t[n])}
        rhs  == IF K = {} THEN t ELSE TrimEnd(SubSeq(t, 1, LeastOf(K) - 1))
        line == r.name \o <<" ">> \o EqText \o <<" ">> \o rhs \o <<" ", ";">>
    IN  IF r.isFragment THEN <<"(", "*", " ", "f", "r", "a", "g", "m", "e", "n", "t", " ", "*", ")", " ">> \o line ELSE line

\* the lines of one section: its banner and its rules
Section(bar, title, rs) ==
    IF rs = <<>> THEN <<>>
    ELSE << bar, title \o G4Path \o <<" ", "*", ")">>, bar, <<>> >>
         \o [k \in 1..Len(rs) |-> emitRule(rs[k])] \o << <<>> >>

\* the text the main script writes for the rules rs of one file
Emitted(rs) ==
    LET parser == SelectSeq(rs, LAMBDA r : ~r.isLexer)
        lexer  == SelectSeq(rs, LAMBDA r : r.isLexer)
        lines  ==
            << <<"(", "*", " ", "S", "o", "u", "r", "c", "e", " ", "f", "i", "l", "e", ":", " ">> \o G4Path \o <<" ", "*", ")">>, <<>> >>
            \o Section(<<"(", "*", " ", "=", "=", "=", "=", "=", "=", "=", "=", "=", "=", "=", "=", "=", "=", "=", "=", "=", "=", "=", "=", "=", "=", "=", "=", " ", "*", ")">>,
                       <<"(", "*", " ", "P", "a", "r", "s", "e", "r", " ", "r", "u", "l", "e", "s", " ", "f", "r", "o", "m", ":", " ">>, parser)
            \o Section(<<"(", "*", " ", "=", "=", "=", "=", "=", "=", "=", "=", "=", "=", "=", "=", "=", "=", "=", "=", "=", "=", "=", "=", "=", "=", "=", " ", "*", ")">>,
                       <<"(", "*", " ", "L", "e", "x", "e", "r", " ", "r", "u", "l", "e", "s", " ", "f", "r", "o", "m", ":", " ">>, lexer)
            \o (IF rs = <<>>
                THEN << <<"(", "*", " ", "N", "o", " ", "r", "u", "l", "e", "s", " ", "w", "e", "r", "e", " ", "f", "o", "u", "n", "d", " ", "a", "f", "t", "e", "r", " ", "s", "t", "r", "i", "p", "p", "i", "n", "g", " ", "A", "N", "T", "L", "R", "-", "s", "p", "e", "c", "i", "f", "i", "c", " ", "c", "o", "n", "s", "t", "r", "u", "c", "t", "s", ".", " ", "*", ")">> >>
                ELSE <<>>)
    IN  Join(lines, <<"\n">>)

\* processFile: the strip passes and the extraction
ProcessFile ==
    /\ pc = "start"
    /\ g4Text' = StripPasses(src)
    /\ g4Rules' = g4ExtractRules(StripPasses(src))
    /\ pc' = "processed"
    /\ UNCHANGED <<src, tks, rules, ruleAt, alts>>
    /\ UNCHANGED chkVars
    /\ UNCHANGED fmtVars

\* the main script: sections, rules, process.stdout.write
Emit ==
    /\ pc = "processed"
    /\ output' = Emitted(g4Rules)
    /\ pc' = "emitted"
    /\ UNCHANGED <<src, tks, rules, ruleAt, alts, width>>
    /\ UNCHANGED chkVars
    /\ UNCHANGED cnvVars

NextConvert == ProcessFile \/ Emit

(***************************************************************************)
(* Specification SpecConvert: the converter on every grammar text of at     *)
(* most MaxG4Lexemes lexemes.                                              *)
(***************************************************************************)
MaxG4Lexemes == 4

InitConvert ==
    /\ pc = "start"
    /\ src \in LexemeTexts({ <<"s">>, <<"X">>, <<":">>, <<";">>, <<"|">>, <<" ">>,
                             <<"'", ";", "'">> }, MaxG4Lexemes)
    /\ tks = <<>>
    /\ rules = <<>>
    /\ ruleAt = <<>>
    /\ alts = <<>>
    /\ startOverride = <<>>
    /\ ChkIdle
    /\ CnvIdle
    /\ FmtIdle

SpecConvert == InitConvert /\ [][NextConvert]_vars

\* the text is one grammar rule name : body ; whose only ";" outside quoted
\* literals is the last character
OneG4Rule(t) ==
    LET ts == tokenize(t)
        S  == {k \in 1..Len(ts) : ts[k].type = "op" /\ ts[k].text = <<";">>}
    IN  /\ Len(ts) >= 3
        /\ ts[1].type = "ident" /\ IsIdentStart(ts[1].text[1])
        /\ ts[2].text = <<":">>
        /\ S = {Len(ts)}

\* C22: of a grammar rule that holds a ";" inside a quoted literal the
\* converter extracts one rule, and the rule it emits holds every quoted
\* literal of the grammar rule, both quotes included.
C22_LiteralSemicolonKept ==
    (pc = "emitted" /\ OneG4Rule(src)) =>
        /\ Len(g4Rules) = 1
        /\ \A k \in 1..Len(tokenize(src)) :
               tokenize(src)[k].type = "string" =>
                   OccursIn(tokenize(src)[k].text, emitRule(g4Rules[1]))

(***************************************************************************)
(* Specification SpecLiteral: the validator on one rule a ::= body ; whose  *)
(* body is made of names, quoted literals, a character class and a group   *)
(* that hold names, quotes, brackets, ";" and comment delimiters.          *)
(***************************************************************************)
MaxLitLexemes == 3

InitLiteral ==
    /\ pc = "start"
    /\ src \in { <<"a", " ">> \o EqText \o <<" ">> \o body \o <<" ", ";", "\n">> :
                     body \in LexemeTexts(
                         { <<"a">>, <<"b">>, <<" ">>,
                           <<"'", "b", "'">>,
                           <<"\"", "'", "\"">>,
                           <<"[", "\\", "]", "b", "]">>,
                           <<"'", ";", "'">>,
                           <<"(", ";", ")">>,
                           <<"'", "(", "*", "*", ")", "'">> }, MaxLitLexemes) }
    /\ tks = <<>>
    /\ rules = <<>>
    /\ ruleAt = <<>>
    /\ alts = <<>>
    /\ startOverride = <<>>
    /\ ChkIdle
    /\ CnvIdle
    /\ FmtIdle

SpecLiteral == InitLiteral /\ [][NextCheck]_vars

\* the body of the one rule of the text a ::= body ; as it was written
WrittenBody == Trim(SubSeq(src, 7, Len(src) - 3))

\* every quoted literal and every character class of the text t is closed,
\* and t holds no comment
LiteralsClosed(t) ==
    LET ts == tokenize(t)
    IN  \A k \in 1..Len(ts) :
            /\ ts[k].type # "comment"
            /\ ~Unterminated(t, ts, TokStart(ts, k), k)

\* the names that stand in the text t outside quoted literals and classes
NamesOutside(t) ==
    LET ts == tokenize(t)
    IN  {ts[k].text : k \in {j \in 1..Len(ts) :
                                 ts[j].type = "ident" /\ IsIdentStart(ts[j].text[1])}}

\* the names the reference check of rule a has acted on: its dependency
\* edges, its undefined-rule errors and its undefined-token warnings
NamesTaken ==
    (IF <<"a">> \in DOMAIN depGraph THEN depGraph[<<"a">>] ELSE {})
        \cup {errors[j].id : j \in OfKind(errors, "undefined")}
        \cup {warnings[j].id : j \in OfKind(warnings, "token")}

\* C24: the names the reference check takes from a rule are the names that
\* stand outside its quoted literals and character classes.
C24_IdentsOutsideLiterals ==
    (/\ pc = "report"
     /\ Len(chkRules) = 1
     /\ chkRules[1].rhs = WrittenBody
     /\ LiteralsClosed(WrittenBody)) => NamesTaken = NamesOutside(WrittenBody)

\* the ";" of the token sequence ts that stand outside parentheses
TopSemis(ts) ==
    {k \in 1..Len(ts) :
        /\ IsOp(ts[k], <<";">>)
        /\ Cardinality({j \in 1..k : IsOp(ts[j], <<"(">>)})
               = Cardinality({j \in 1..k : IsOp(ts[j], <<")">>)})}

\* C25: of a rule whose only ";" outside quoted literals, character classes
\* and parentheses is its terminator, the validator analyses the text from
\* ::= to that terminator, comment delimiters inside quoted literals included.
C25_RhsRunsToTerminator ==
    (/\ pc \in {"loaded", "perRule", "unreachable", "report"}
     /\ LiteralsClosed(src)
     /\ TopSemis(tokenize(src)) = {Len(tokenize(src)) - 1}) =>
        /\ Len(chkRules) = 1
        /\ chkRules[1].rhs = WrittenBody

(***************************************************************************)
(* Line numbers and the retained definition (SpecCheck, SpecPlain).         *)
(***************************************************************************)
\* the positions of the text s where a name stands that ::= follows
NamePositions(s) ==
    {w \in 1..Len(s) :
        /\ IsIdentStart(s[w])
        /\ ~IsWordChar(At(s, w - 1))
        /\ Slice(s, WsEnd(s, IdentEnd(s, w)), WsEnd(s, IdentEnd(s, w)) + 3) = EqText}

\* the k-th smallest member of the set S of numbers
NthOf(S, k) == CHOOSE m \in S : Cardinality({j \in S : j <= m}) = k

\* the 1-based line of position w of the text s
LineOf(s, w) == CountNewlines(SubSeq(s, 1, w - 1)) + 1

\* C26: the line of every rule, and both lines of every duplicate error, are
\* the 1-based lines of the input on which the rule's name stands.
C26_LineOfName ==
    (AfterDuplicates /\ Len(chkRules) = Cardinality(NamePositions(src))) =>
        /\ \A k \in 1..Len(chkRules) :
               chkRules[k].line = LineOf(src, NthOf(NamePositions(src), k))
        /\ \A j \in OfKind(errors, "duplicate") :
               \E k \in RulesNamed(errors[j].rule) :
                   /\ k # LeastOf(RulesNamed(errors[j].rule))
                   /\ errors[j].line = LineOf(src, NthOf(NamePositions(src), k))
                   /\ errors[j].first =
                          LineOf(src, NthOf(NamePositions(src),
                                            LeastOf(RulesNamed(errors[j].rule))))

\* C27: the dependency edges that leave a rule name are the references of
\* its first definition, also when the name is defined again, and the name
\* is reported unreachable at most once.
C27_FirstDefinitionRetained ==
    AfterUnreachable =>
        \A k \in 1..Len(chkRules) :
            LET n     == chkRules[k].name
                first == LeastOf(RulesNamed(n))
                refs  == {RefIds(first)[m] : m \in 1..Len(RefIds(first))}
            IN  /\ depGraph[n] = {id \in refs : id \in {chkRules[j].name : j \in 1..Len(chkRules)}}
                /\ Cardinality({j \in OfKind(warnings, "unreachable") :
                                    warnings[j].rule = n}) <= 1

(***************************************************************************)
(* Specification SpecJoin: the formatter at the default width on one rule   *)
(* a ::= body ; whose body is made of names, operators, a group of two     *)
(* alternatives and a quoted literal that holds a blank and a newline.     *)
(***************************************************************************)
MaxJoinLexemes == 4

InitJoin ==
    /\ pc = "start"
    /\ src \in { <<"a", " ">> \o EqText \o <<" ">> \o body \o <<" ", ";">> :
                     body \in LexemeTexts(
                         { <<"b">>, <<"*">>, <<",">>, <<"|">>, <<" ">>,
                           <<"(", "b", "|", "b", ")">>,
                           <<"'", " ", "\n", "'">> }, MaxJoinLexemes) }
    /\ tks = <<>>
    /\ rules = <<>>
    /\ ruleAt = <<>>
    /\ alts = <<>>
    /\ startOverride = <<>>
    /\ ChkIdle
    /\ CnvIdle
    /\ FmtIdle

SpecJoin == InitJoin /\ [][NextFormat]_vars

\* the tokens of a sequence that are not whitespace
WithoutWs(ts) == SelectSeq(ts, LAMBDA tk : tk.type # "ws")

\* the adjacency table: what stands between the consecutive tokens x and y
TableGap(x, y) ==
    IF IsOp(x, <<"(">>) THEN <<>>
    ELSE IF y.type = "op" /\ y.text \in { <<")">>, <<"?">>, <<"*">>, <<"+">>, <<",">> }
    THEN <<>>
    ELSE <<" ">>

\* the tokens ts written with the gaps of the table
TableJoin(ts) ==
    Concat([k \in 1..Len(ts) |->
               (IF k = 1 THEN <<>> ELSE TableGap(ts[k - 1], ts[k])) \o ts[k].text])

\* the rule r written with the gaps of the table, one alternative per line
TableRule(r) ==
    LET as == splitTopLevelAlternatives(r.rhs)
    IN  Join([k \in 1..Len(as) |->
                 (IF k = 1 THEN r.name \o <<" ">> \o EqText \o <<" ">>
                  ELSE Spaces(Len(r.name) + 5) \o <<"|", " ">>)
                     \o TableJoin(WithoutWs(as[k]))], <<"\n">>) \o <<" ", ";">>

\* C28: in a rendered alternative two consecutive tokens are separated by
\* exactly one space, and by nothing behind "(" and before ")", a quantifier
\* or ",".
C28_AdjacencyTable ==
    (/\ pc = "format"
     /\ Len(rules) = 1
     /\ \A k \in 1..Len(rules[1].rhs) : rules[1].rhs[k].type # "string") =>
        output = TableRule(rules[1]) \o <<"\n">>

\* the (kind, text) pairs of a token sequence without its whitespace
KindTexts(ts) == [k \in 1..Len(WithoutWs(ts)) |->
                     <<WithoutWs(ts)[k].type, WithoutWs(ts)[k].text>>]

\* C29: the formatted rule, scanned again, is the rule's name, ::=, its rhs
\* tokens without the whitespace, and ";", each with its kind and its text.
C29_OnlyWhitespaceChanges ==
    (pc = "format" /\ Len(rules) = 1) =>
        KindTexts(tokenize(output)) =
            << <<"ident", rules[1].name>>, <<"op", EqText>> >>
                \o KindTexts(rules[1].rhs) \o << <<"op", <<";">> >> >>

(***************************************************************************)
(* Specification SpecShared: the validator on texts of at most              *)
(* MaxSharedLexemes pieces, each a rule (its name and ::= on one line or   *)
(* on two), a blank, a newline or a comment.                               *)
(***************************************************************************)
MaxSharedLexemes == 3

InitShared ==
    /\ pc = "start"
    /\ src \in LexemeTexts(
           { n \o sep \o EqText \o <<" ", "b", " ", ";">> :
                 n \in { <<"a">>, <<"b">> }, sep \in { <<" ">>, <<"\n">> } }
           \cup { <<" ">>, <<"\n">>, <<"(", "*", "c", "*", ")">> }, MaxSharedLexemes)
    /\ tks = <<>>
    /\ rules = <<>>
    /\ ruleAt = <<>>
    /\ alts = <<>>
    /\ startOverride = <<>>
    /\ ChkIdle
    /\ CnvIdle
    /\ FmtIdle

SpecShared == InitShared /\ [][NextCheck]_vars

\* the names of a sequence of rules, in order
RuleNames(rs) == [k \in 1..Len(rs) |-> rs[k].name]

\* C30: the rules the validator extracts from a text and the rules the
\* formatter's token-based extractor returns for it have the same names in
\* the same order.
C30_ExtractorsAgree ==
    AfterLoad => RuleNames(chkRules) = RuleNames(extractRules(tokenize(src)))

====
